---- MODULE Spec2Model ----
(***************************************************************************)
(* Model of the dogtrace resolution engine:                                *)
(*   - TransactionExecutor.parseTrace / extractStorageChanges / padHex     *)
(*   - StorageLayoutParser.buildPCToInstructionMap / buildSourceMapCache / *)
(*     getSourceLocation                                                   *)
(* Strings are modelled by their structure: a hex word is a prefix flag    *)
(* and a sequence of hex digits (0..15); a source map is the sequence of   *)
(* its ';'-separated entries, each the sequence of its ':'-separated       *)
(* fields; a source text is the sequence of its '\n'-separated lines.      *)
(***************************************************************************)
EXTENDS Integers, Sequences, FiniteSets, TLC

VARIABLES
    \* ---- TransactionExecutor (one executeWithTrace call) ----
    traceResult,      \* raw debug_traceTransaction result
    traces,           \* ExecutionTrace[] returned by parseTrace
    storageChanges,   \* outcome of extractStorageChanges
    tpc,              \* position inside executeWithTrace
    reply,            \* receipt status, returnValue and revertReason
    execResult,       \* ExecutionResult.result returned by executeWithTrace
    \* ---- StorageLayoutParser ----
    sourceCode,       \* this.sourceCode  (sequence of lines)
    sourceMap,        \* this.sourceMap   (sequence of entries)
    bytecode,         \* this.bytecode    (hex string)
    pcToInstructionIndex, \* this.pcToInstructionIndex
    sourceMapCache,   \* the cache getSourceLocation builds (line 679)
    ppc,              \* position inside parseContract
    fnContext,        \* outcome of the last getFunctionContext call
    decoded,          \* outcome of the last decodeValue call
    loc,              \* outcome of the last getSourceLocation call
    seen,             \* pc -> what getSourceLocation returned since the parse
    \* ---- DebugService, CLI, HTTP API ----
    requests,         \* the debug requests in flight, by request id
    heap,             \* the StorageLayoutParser objects created so far
    cli,              \* one invocation of the dog debug command
    http              \* one request to an /api/debug route

traceVars  == <<traceResult, traces, storageChanges, tpc, reply, execResult>>
parserVars == <<sourceCode, sourceMap, bytecode, pcToInstructionIndex,
               sourceMapCache, ppc, loc, fnContext, decoded>>
serviceVars == <<seen, requests, heap, cli, http>>
vars == <<traceResult, traces, storageChanges, tpc, reply, execResult,
          sourceCode, sourceMap, bytecode, pcToInstructionIndex,
          sourceMapCache, ppc, loc, fnContext, decoded,
          seen, requests, heap, cli, http>>

----------------------------------------------------------------------------
(* Bounds *)

MaxSteps == 3          \* longest raw trace the tracer produces
MaxCodeLen == 4        \* bytes of the enumerated bytecodes
MaxEntries == 3        \* entries of the enumerated source maps
MaxRun == 21           \* longest run of compiler-generated entries
MaxStart == 9          \* largest start offset of the located entries
MaxLines == 3          \* lines of the texts given to getFunctionContext

----------------------------------------------------------------------------
(* Generic helpers *)

Max(S) == CHOOSE x \in S : \A y \in S : y <= x

Zeros(n) == [i \in 1..n |-> 0]

\* Map<K,V>.set
MapSet(m, k, v) == [x \in (DOMAIN m) \cup {k} |-> IF x = k THEN v ELSE m[x]]

EmptyMap == [x \in {} |-> 0]

\* An optional value is <<>> (undefined) or <<v>>.
None == <<>>
Some(v) == <<v>>

----------------------------------------------------------------------------
(* Hex words: "0x1" is [pfx |-> TRUE, digs |-> <<1>>], "ff" is             *)
(* [pfx |-> FALSE, digs |-> <<15, 15>>].                                    *)

Hex(p, d) == [pfx |-> p, digs |-> d]

PadLength == 64

\* padHex(hex, length): strip 0x, padStart(length, '0'), prepend 0x
padHex(hex, length) ==
    LET clean == hex.digs
        padded == IF Len(clean) >= length THEN clean
                  ELSE Zeros(length - Len(clean)) \o clean
    IN Hex(TRUE, padded)

\* '0x' + '0'.repeat(64)
ZeroWord == Hex(TRUE, Zeros(PadLength))

\* JavaScript truthiness of a string: non-empty
Truthy(w) == w.pfx \/ Len(w.digs) > 0

\* BigInt(string) raises SyntaxError on "0x" and on a non-decimal string
\* without the 0x prefix; an unprefixed string is read as decimal.
BigIntThrows(w) ==
    IF w.pfx THEN Len(w.digs) = 0
    ELSE \E i \in 1..Len(w.digs) : w.digs[i] > 9

----------------------------------------------------------------------------
(* Raw structLogs the tracer can return *)

Slots == {Hex(TRUE, <<1>>), Hex(TRUE, <<0, 2>>)}
Vals  == {Hex(TRUE, <<7>>), Hex(FALSE, <<15, 15>>)}

RawLog(pc, op, gas, gasCost, stack) ==
    [pc |-> pc, op |-> op, gas |-> gas, gasCost |-> gasCost,
     stack |-> stack, memory |-> None, depth |-> Some(1)]

GasLogs ==
    { RawLog(7, "PUSH1", g, c, None) : g \in {0, 5, 9}, c \in {None, Some(3)} }

StorageLogs ==
       { RawLog(0, "SLOAD", 4, None, Some(st)) :
            st \in {<<>>} \cup { <<k>> : k \in Slots } }
  \cup { RawLog(0, "SSTORE", 4, None, Some(st)) :
            st \in {<<Hex(TRUE, <<1>>)>>}
                   \cup { <<v, k>> : v \in Vals, k \in Slots } }
  \cup { RawLog(0, "DUP1", 4, None, Some(<<v>>)) : v \in Vals }

RawLogs == GasLogs \cup StorageLogs

----------------------------------------------------------------------------
(* TransactionExecutor.parseTrace *)

\* x || dflt for an optional field
OrElse(opt, dflt) == IF opt = None THEN dflt ELSE opt[1]

\* log.gasCost || 0  (undefined and 0 are both falsy)
GasCostOrZero(log) == OrElse(log.gasCost, 0)

\* variant: step numbers counted from 1
ParseLogOneBased(log, i, lastGas) ==
    LET stack == OrElse(log.stack, <<>>)
        n == Len(stack)
    IN [step    |-> i + 1,
        pc      |-> log.pc,
        opcode  |-> log.op,
        gas     |-> log.gas,
        gasCost |-> IF lastGas > 0 THEN lastGas - log.gas
                    ELSE GasCostOrZero(log),
        stack   |-> stack,
        memory  |-> OrElse(log.memory, <<>>),
        depth   |-> OrElse(log.depth, 0),
        storage |-> IF log.op = "SSTORE" /\ log.stack # None /\ n >= 2
                    THEN Some([key   |-> padHex(stack[n], PadLength),
                               value |-> padHex(stack[n - 1], PadLength)])
                    ELSE None]

\* variant: key and value taken in the opposite stack order
ParseLogSwapped(log, i, lastGas) ==
    LET stack == OrElse(log.stack, <<>>)
        n == Len(stack)
    IN [step    |-> i,
        pc      |-> log.pc,
        opcode  |-> log.op,
        gas     |-> log.gas,
        gasCost |-> IF lastGas > 0 THEN lastGas - log.gas
                    ELSE GasCostOrZero(log),
        stack   |-> stack,
        memory  |-> OrElse(log.memory, <<>>),
        depth   |-> OrElse(log.depth, 0),
        storage |-> IF log.op = "SSTORE" /\ log.stack # None /\ n >= 2
                    THEN Some([key   |-> padHex(stack[n - 1], PadLength),
                               value |-> padHex(stack[n], PadLength)])
                    ELSE None]

ParseLog(log, i, lastGas) ==
    LET stack == OrElse(log.stack, <<>>)
        n == Len(stack)
    IN [step    |-> i,
        pc      |-> log.pc,
        opcode  |-> log.op,
        gas     |-> log.gas,
        gasCost |-> IF lastGas > 0 THEN lastGas - log.gas
                    ELSE GasCostOrZero(log),
        stack   |-> stack,
        memory  |-> OrElse(log.memory, <<>>),
        depth   |-> OrElse(log.depth, 0),
        storage |-> IF log.op = "SSTORE" /\ log.stack # None /\ n >= 2
                    THEN Some([key   |-> padHex(stack[n], PadLength),
                               value |-> padHex(stack[n - 1], PadLength)])
                    ELSE None]

RECURSIVE ParseLoop(_, _, _, _)
\* i is the 0-based loop index; structLogs[i] of the code is logs[i + 1]
ParseLoop(logs, i, lastGas, out) ==
    IF i >= Len(logs) THEN out
    ELSE ParseLoop(logs, i + 1, logs[i + 1].gas,
                   Append(out, ParseLog(logs[i + 1], i, lastGas)))

parseTrace(tr) ==
    LET structLogs == OrElse(tr.structLogs, <<>>)
    IN ParseLoop(structLogs, 0, 0, <<>>)

----------------------------------------------------------------------------
(* TransactionExecutor.extractStorageChanges *)

RECURSIVE CollectReads(_, _, _)
\* first pass: traces.forEach over SLOADs; index is 0-based
CollectReads(ts, index, reads) ==
    IF index >= Len(ts) THEN reads
    ELSE
      LET t == ts[index + 1]
          n == Len(t.stack)
          hasNext == index + 1 < Len(ts)
          next == ts[index + 2]
          m == Len(next.stack)
      IN IF /\ t.opcode = "SLOAD" /\ n >= 1
            /\ Truthy(t.stack[n])
            /\ hasNext /\ m > 0
            /\ Truthy(next.stack[m])
         THEN CollectReads(ts, index + 1,
                  MapSet(reads, padHex(t.stack[n], PadLength), next.stack[m]))
         ELSE CollectReads(ts, index + 1, reads)

storageReadsOf(ts) == CollectReads(ts, 0, EmptyMap)

\* storageReads.get(slot) || '0x' + '0'.repeat(64)
OldValueOf(reads, slot) ==
    IF slot \in DOMAIN reads THEN reads[slot] ELSE ZeroWord

ChangeOf(reads, t) ==
    [slot     |-> t.storage[1].key,
     oldValue |-> OldValueOf(reads, t.storage[1].key),
     newValue |-> t.storage[1].value,
     step     |-> t.step]

\* .filter((t) => t.storage)
WriteSteps(ts) == SelectSeq(ts, LAMBDA t : t.storage # None)

\* variant: a later write to a slot takes the value of the write before it
extractStorageChangesChained(ts) ==
    LET reads == storageReadsOf(ts)
        ws == WriteSteps(ts)
        before(j) == { k \in 1..(j - 1) :
                         ws[k].storage[1].key = ws[j].storage[1].key }
        out == [j \in 1..Len(ws) |->
                  IF before(j) = {} THEN ChangeOf(reads, ws[j])
                  ELSE [ChangeOf(reads, ws[j]) EXCEPT
                          !.oldValue = ws[Max(before(j))].storage[1].value]]
    IN IF \E j \in 1..Len(ws) :
             BigIntThrows(out[j].oldValue) \/ BigIntThrows(out[j].newValue)
       THEN [threw |-> TRUE, changes |-> <<>>]
       ELSE [threw |-> FALSE, changes |-> out]

\* .map(...) raises when BigInt(oldValue) or BigInt(newValue) does
extractStorageChanges(ts) ==
    LET reads == storageReadsOf(ts)
        ws == WriteSteps(ts)
        out == [j \in 1..Len(ws) |-> ChangeOf(reads, ws[j])]
    IN IF \E j \in 1..Len(ws) :
             BigIntThrows(out[j].oldValue) \/ BigIntThrows(out[j].newValue)
       THEN [threw |-> TRUE, changes |-> <<>>]
       ELSE [threw |-> FALSE, changes |-> out]

----------------------------------------------------------------------------
(* JavaScript numbers as parseInt returns them: an integer or NaN *)

Num(v) == [nan |-> FALSE, v |-> v]
NaNv   == [nan |-> TRUE, v |-> 0]

----------------------------------------------------------------------------
(* executeWithTrace, step 7 on: the revert reason (lines 146-196).          *)
(* returnValue is a hex string without 0x; abi is what ethers' AbiCoder     *)
(* decodes the bytes after the selector to as a single string: <<s>>, or    *)
(* <<>> when it raises.                                                     *)

Payload(digs, abi) == [digs |-> digs, abi |-> abi]

\* 4e487b71 and 08c379a0
PanicSelector == <<4, 14, 4, 8, 7, 11, 7, 1>>
ErrorSelector == <<0, 8, 12, 3, 7, 9, 10, 0>>

\* returnData.startsWith(selector)
StartsWith(digs, selector) ==
    Len(digs) >= Len(selector) /\ SubSeq(digs, 1, Len(selector)) = selector

\* a number above every key of the table (parseInt of a long hex string)
Huge == [huge |-> TRUE]

RECURSIVE HexValue(_)
HexValue(digs) ==
    IF digs = <<>> THEN 0
    ELSE 16 * HexValue(SubSeq(digs, 1, Len(digs) - 1)) + digs[Len(digs)]

RECURSIVE StripZeros(_)
StripZeros(digs) ==
    IF digs # <<>> /\ Head(digs) = 0 THEN StripZeros(Tail(digs)) ELSE digs

\* parseInt(text, 16) of a string of hex digits
parseIntHex(digs) ==
    IF digs = <<>> THEN NaNv
    ELSE IF Len(StripZeros(digs)) > 6 THEN Huge
    ELSE Num(HexValue(StripZeros(digs)))

\* variant: the keys written in decimal (1, 11, 12, ...) instead of hex
panicReasonsDecimal ==
    (1 :> "Assertion failed"
  @@ 11 :> "Arithmetic overflow/underflow (unchecked)"
  @@ 12 :> "Division or modulo by zero"
  @@ 21 :> "Invalid enum value"
  @@ 22 :> "Invalid storage byte array"
  @@ 31 :> "Pop on empty array"
  @@ 32 :> "Array index out of bounds"
  @@ 41 :> "Out of memory"
  @@ 51 :> "Invalid internal function")

\* keys 0x01, 0x11, 0x12, 0x21, 0x22, 0x31, 0x32, 0x41, 0x51
panicReasons ==
    (1 :> "Assertion failed"
  @@ 17 :> "Arithmetic overflow/underflow (unchecked)"
  @@ 18 :> "Division or modulo by zero"
  @@ 33 :> "Invalid enum value"
  @@ 34 :> "Invalid storage byte array"
  @@ 49 :> "Pop on empty array"
  @@ 50 :> "Array index out of bounds"
  @@ 65 :> "Out of memory"
  @@ 81 :> "Invalid internal function")

\* an error message: `Panic(code): text`, `Error: text` or the plain text
Message(kind, code, text) == [kind |-> kind, code |-> code, text |-> text]
Plain(text) == Message("plain", NaNv, text)

\* panicReasons[panicCode] || 'Unknown panic'
PanicReasonOf(panicCode) ==
    IF panicCode # NaNv /\ panicCode # Huge /\ panicCode.v \in DOMAIN panicReasons
    THEN panicReasons[panicCode.v] ELSE "Unknown panic"

\* traceResult.revertReason || 'Transaction reverted'
DefaultMessage(revertReason) ==
    IF revertReason = None \/ revertReason[1] = ""
    THEN Plain("Transaction reverted") ELSE Plain(revertReason[1])

\* variant: a failed decode resets the message to the generic one
DecodeErrorStringGeneric(returnData, errorMessage) ==
    IF returnData.abi = None THEN Plain("Transaction reverted")
    ELSE Message("Error", NaNv, returnData.abi[1])

\* try { errorMessage = `Error: ${decode(...)[0]}` } catch (e) {}
DecodeErrorString(returnData, errorMessage) ==
    IF returnData.abi = None THEN errorMessage
    ELSE Message("Error", NaNv, returnData.abi[1])

\* lines 147-176
ErrorMessageOf(r) ==
    LET errorMessage == DefaultMessage(r.revertReason)
    IN IF r.status = 0 /\ r.returnValue # None /\ r.returnValue[1].digs # <<>>
       THEN LET returnData == r.returnValue[1]
            IN IF StartsWith(returnData.digs, PanicSelector)
               THEN LET panicCode ==
                          parseIntHex(SubSeq(returnData.digs, 9,
                                             Len(returnData.digs)))
                    IN Message("Panic", panicCode, PanicReasonOf(panicCode))
               ELSE IF StartsWith(returnData.digs, ErrorSelector)
               THEN DecodeErrorString(returnData, errorMessage)
               ELSE errorMessage
       ELSE errorMessage

\* result: { success, ...(status === 0 && { error }) }
ResultOf(r) ==
    [returned |-> TRUE,
     success  |-> r.status = 1,
     error    |-> IF r.status = 0 THEN Some(ErrorMessageOf(r)) ELSE None]

NotReturned == [returned |-> FALSE, success |-> FALSE, error |-> None]

Reply(status, returnValue, revertReason) ==
    [status |-> status, returnValue |-> returnValue,
     revertReason |-> revertReason]

SuccessReply == Reply(1, None, None)

\* the 32-byte word of a small panic code
CodeWord(c) == Zeros(62) \o <<c \div 16, c % 16>>

ReturnValues ==
       { Payload(PanicSelector \o CodeWord(c), None) :
           c \in {0, 1, 2, 11, 17, 18, 33, 34, 49, 50, 65, 81, 82, 255} }
  \cup { Payload(PanicSelector, None),
         Payload(PanicSelector \o <<1>> \o Zeros(61) \o <<1, 1>>, None),
         Payload(ErrorSelector \o CodeWord(32), Some("bad input")),
         Payload(ErrorSelector \o CodeWord(32), Some("")),
         Payload(ErrorSelector \o CodeWord(255), None),
         Payload(ErrorSelector, None),
         Payload(<<1, 2, 3, 4, 5, 6, 7, 8>> \o CodeWord(17), Some("x")),
         Payload(<<4, 14, 4, 8>>, None),
         Payload(<<>>, None) }

Replies ==
    { Reply(st, rv, rr) :
        st \in {0, 1},
        rv \in {None} \cup { Some(v) : v \in ReturnValues },
        rr \in {None, Some(""), Some("custom reason")} }

\* steps 7-8: decode the revert reason and return
ReturnResult ==
    /\ tpc = "extracted"
    /\ execResult' = ResultOf(reply)
    /\ tpc' = "returned"
    /\ UNCHANGED <<traceResult, traces, storageChanges, reply>>

----------------------------------------------------------------------------
(* executeWithTrace, steps 4-6 *)

NoChanges == [threw |-> FALSE, changes |-> <<>>]

\* the node returns a result with or without a structLogs array
InitTrace ==
    /\ traceResult \in { [structLogs |-> None], [structLogs |-> Some(<<>>)] }
    /\ traces = <<>>
    /\ storageChanges = NoChanges
    /\ tpc = "tracing"
    /\ reply = SuccessReply
    /\ execResult = NotReturned

\* the tracer logs one more executed instruction
TraceStep ==
    /\ tpc = "tracing"
    /\ traceResult.structLogs # None
    /\ Len(traceResult.structLogs[1]) < MaxSteps
    /\ \E log \in RawLogs :
         traceResult' = [structLogs |->
                            Some(Append(traceResult.structLogs[1], log))]
    /\ UNCHANGED <<traces, storageChanges, tpc, reply, execResult>>

ParseTrace ==
    /\ tpc = "tracing"
    /\ traces' = parseTrace(traceResult)
    /\ tpc' = "parsed"
    /\ UNCHANGED <<traceResult, storageChanges, reply, execResult>>

ExtractStorageChanges ==
    /\ tpc = "parsed"
    /\ storageChanges' = extractStorageChanges(traces)
    /\ tpc' = IF storageChanges'.threw THEN "threw" ELSE "extracted"
    /\ UNCHANGED <<traceResult, traces, reply, execResult>>


----------------------------------------------------------------------------
(* StorageLayoutParser.buildPCToInstructionMap *)

\* parseInt(code.slice(pc * 2, pc * 2 + 2), 16); the slice is one digit
\* long when an odd-length string ends inside the byte
OpcodeAt(code, pc) ==
    IF 2 * pc + 2 <= Len(code)
    THEN 16 * code[2 * pc + 1] + code[2 * pc + 2]
    ELSE code[2 * pc + 1]

\* variant: PUSH1 taken to carry no operand (opcode - 0x60)
PushAdvanceOffByOne(opcode) ==
    IF opcode >= 96 /\ opcode <= 127
    THEN 1 + (opcode - 96)
    ELSE 1

\* bytes consumed by the instruction: PUSH1..PUSH32 are 1 + N, others 1
PushAdvance(opcode) ==
    IF opcode >= 96 /\ opcode <= 127
    THEN 1 + (opcode - 95)
    ELSE 1

\* variant: the index advances with the byte offset
NextInstructionIndexByBytes(instructionIndex, opcode) ==
    IF opcode >= 96 /\ opcode <= 127
    THEN instructionIndex + 1 + (opcode - 95)
    ELSE instructionIndex + 1

\* instructionIndex++
NextInstructionIndex(instructionIndex, opcode) == instructionIndex + 1

RECURSIVE BuildLoop(_, _, _, _)
\* while (pc < code.length / 2)
BuildLoop(code, pc, instructionIndex, map) ==
    IF ~(2 * pc < Len(code)) THEN map
    ELSE LET opcode == OpcodeAt(code, pc)
         IN BuildLoop(code, pc + PushAdvance(opcode),
                      NextInstructionIndex(instructionIndex, opcode),
                      MapSet(map, pc, instructionIndex))

buildPCToInstructionMap(bc) == BuildLoop(bc.digs, 0, 0, EmptyMap)

----------------------------------------------------------------------------
(* Source maps.  A field is empty text, numeric text, a jump letter or     *)
(* other text; "10:5:0:-" is <<N(10), N(5), N(0), J>>, and the empty entry *)
(* between two ';' is <<E>>.                                               *)

E    == [k |-> "empty", n |-> 0]
N(n) == [k |-> "num", n |-> n]
J    == [k |-> "jump", n |-> 0]
B    == [k |-> "text", n |-> 0]

\* the empty string ''
EmptyString == << <<E>> >>

\* parseInt(text)
parseInt(tok) == IF tok.k = "num" THEN Num(tok.n) ELSE NaNv

\* parts[k] !== undefined && parts[k] !== ''
HasField(parts, k) == k + 1 <= Len(parts) /\ parts[k + 1].k # "empty"

\* variant: an empty field is reset instead of inherited
FieldOrReset(parts, k, last) ==
    IF HasField(parts, k) THEN parseInt(parts[k + 1]) ELSE Num(0)

\* field k of an entry: the parsed value when written, else the previous one
FieldOr(parts, k, last) ==
    IF HasField(parts, k) THEN parseInt(parts[k + 1]) ELSE last

RECURSIVE CacheLoop(_, _, _, _, _, _)
\* entries.forEach((entry, pc) => ...), pc 0-based
CacheLoop(entries, pc, lastStart, lastLength, lastFileIndex, cache) ==
    IF pc >= Len(entries) THEN cache
    ELSE LET entry == entries[pc + 1]
             s == IF entry = <<E>> THEN lastStart
                  ELSE FieldOr(entry, 0, lastStart)
             l == IF entry = <<E>> THEN lastLength
                  ELSE FieldOr(entry, 1, lastLength)
             f == IF entry = <<E>> THEN lastFileIndex
                  ELSE FieldOr(entry, 2, lastFileIndex)
         IN CacheLoop(entries, pc + 1, s, l, f,
                MapSet(cache, pc, [start |-> s, length |-> l, fileIndex |-> f]))

buildSourceMapCache(sm) ==
    IF sm = EmptyString THEN EmptyMap
    ELSE CacheLoop(sm, 0, Num(0), Num(0), Num(0), EmptyMap)

----------------------------------------------------------------------------
(* Source text: the sequence of its lines, each a sequence of characters *)

EmptyText == << <<>> >>

IsSpace(c) == c = " "

\* String.prototype.trim
Trim(line) ==
    LET keep == { i \in 1..Len(line) : ~IsSpace(line[i]) }
    IN IF keep = {} THEN <<>>
       ELSE SubSeq(line, CHOOSE a \in keep : \A b \in keep : a <= b, Max(keep))

RECURSIVE ScanLinesNoNewline(_, _, _, _)
\* variant: the newline that ends a line is not counted
ScanLinesNoNewline(lines, j, currentOffset, start) ==
    IF j >= Len(lines) THEN [line |-> 1, column |-> 1]
    ELSE LET lineLength == Len(lines[j + 1])
         IN IF ~start.nan /\ currentOffset + lineLength > start.v
            THEN [line |-> j + 1, column |-> start.v - currentOffset + 1]
            ELSE ScanLinesNoNewline(lines, j + 1, currentOffset + lineLength,
                                    start)

RECURSIVE ScanLines(_, _, _, _)
\* the for loop over lines: the first line with
\* currentOffset + line.length + 1 > start, else the defaults (1, 1);
\* a comparison with NaN is false
ScanLines(lines, j, currentOffset, start) ==
    IF j >= Len(lines) THEN [line |-> 1, column |-> 1]
    ELSE LET lineLength == Len(lines[j + 1]) + 1
         IN IF ~start.nan /\ currentOffset + lineLength > start.v
            THEN [line |-> j + 1, column |-> start.v - currentOffset + 1]
            ELSE ScanLines(lines, j + 1, currentOffset + lineLength, start)

\* lines[lineNumber - 1]?.trim() || ''
SnippetAt(lines, lineNumber) ==
    IF lineNumber >= 1 /\ lineNumber <= Len(lines)
    THEN Trim(lines[lineNumber]) ELSE <<>>

\* {line, column, snippet} for a start offset
Locate(lines, start) ==
    LET lc == ScanLines(lines, 0, 0, start)
    IN [line |-> lc.line, column |-> lc.column,
        snippet |-> SnippetAt(lines, lc.line)]

\* the neighbour fallback reports column 1
LocateLine(lines, start) ==
    LET lc == ScanLines(lines, 0, 0, start)
    IN [line |-> lc.line, column |-> 1,
        snippet |-> SnippetAt(lines, lc.line)]

----------------------------------------------------------------------------
(* StorageLayoutParser.getSourceLocation *)

searchLimit == 20
nearbyRange == 5

\* prevPosition && prevPosition.fileIndex === 0
IsUserEntry(cache, idx) == idx \in DOMAIN cache /\ cache[idx].fileIndex = Num(0)

RECURSIVE SearchBackwardsShort(_, _, _)
\* variant: the loop stops one step early (offset < searchLimit)
SearchBackwardsShort(cache, instructionIndex, offset) ==
    IF offset >= searchLimit THEN -1
    ELSE LET prevIndex == instructionIndex - offset
         IN IF prevIndex < 0 THEN -1
            ELSE IF IsUserEntry(cache, prevIndex) THEN prevIndex
            ELSE SearchBackwardsShort(cache, instructionIndex, offset + 1)

RECURSIVE SearchBackwards(_, _, _)
\* for (offset = 1; offset <= searchLimit; offset++): the index of the
\* first file-index-0 entry met, or -1
SearchBackwards(cache, instructionIndex, offset) ==
    IF offset > searchLimit THEN -1
    ELSE LET prevIndex == instructionIndex - offset
         IN IF prevIndex < 0 THEN -1
            ELSE IF IsUserEntry(cache, prevIndex) THEN prevIndex
            ELSE SearchBackwards(cache, instructionIndex, offset + 1)

\* if (nearbyPos)
IsNearbyEntry(cache, idx) == idx \in DOMAIN cache

RECURSIVE SearchNearbyNarrow(_, _, _)
\* variant: the lowest offset of the range is skipped
SearchNearbyNarrow(cache, instructionIndex, offset) ==
    IF offset > nearbyRange THEN -1
    ELSE IF offset > -nearbyRange /\ IsNearbyEntry(cache, instructionIndex + offset)
         THEN instructionIndex + offset
         ELSE SearchNearbyNarrow(cache, instructionIndex, offset + 1)

RECURSIVE SearchNearby(_, _, _)
\* for (offset = -5; offset <= 5; offset++): the first index with an
\* entry, or -1
SearchNearby(cache, instructionIndex, offset) ==
    IF offset > nearbyRange THEN -1
    ELSE IF IsNearbyEntry(cache, instructionIndex + offset)
         THEN instructionIndex + offset
         ELSE SearchNearby(cache, instructionIndex, offset + 1)

\* result: the value returned (None is null); via and used record the
\* return statement taken and the cache index the location was computed from
Outcome(pc, result, via, used) ==
    [called |-> TRUE, pc |-> pc, result |-> result, via |-> via, used |-> used]

NoCall == [called |-> FALSE, pc |-> 0, result |-> None, via |-> "none",
           used |-> -1]

\* variant: an operand byte is given the index of its instruction
InstructionIndexOfOperand(table, pc) ==
    LET below == { q \in DOMAIN table : q <= pc }
    IN IF below = {} THEN None ELSE Some(table[Max(below)])

\* this.pcToInstructionIndex.get(pc): <<>> is undefined
InstructionIndexOf(table, pc) ==
    IF pc \in DOMAIN table THEN Some(table[pc]) ELSE None

getSourceLocation(code, sm, table, pc) ==
    IF sm = EmptyString \/ code = EmptyText
    THEN Outcome(pc, None, "unloaded", -1)
    ELSE IF InstructionIndexOf(table, pc) = None
    THEN Outcome(pc, None, "nopc", -1)
    ELSE
      LET instructionIndex == InstructionIndexOf(table, pc)[1]
          cache == buildSourceMapCache(sm)
          hasPosition == instructionIndex \in DOMAIN cache
      IN IF hasPosition /\ cache[instructionIndex].fileIndex # Num(0)
         THEN LET prevIndex == SearchBackwards(cache, instructionIndex, 1)
              IN IF prevIndex >= 0
                 THEN Outcome(pc, Some(Locate(code, cache[prevIndex].start)),
                              "backward", prevIndex)
                 ELSE Outcome(pc, None, "backward", -1)
         ELSE IF ~hasPosition
         THEN LET near == SearchNearby(cache, instructionIndex, -nearbyRange)
              IN IF near >= 0
                 THEN Outcome(pc, Some(LocateLine(code, cache[near].start)),
                              "nearby", near)
                 ELSE Outcome(pc, None, "nearby", -1)
         ELSE Outcome(pc, Some(Locate(code, cache[instructionIndex].start)),
                      "direct", instructionIndex)

----------------------------------------------------------------------------
(* Inputs: source texts, bytecodes, source maps *)

\* "ab\n c \nd"
SourceA == << <<"a", "b">>, <<" ", "c", " ">>, <<"d">> >>
\* "x"
SourceB == << <<"x">> >>

SeqsUpTo(S, n) == UNION { [1..k -> S] : k \in 0..n }

RECURSIVE Flatten(_)
Flatten(ss) == IF ss = <<>> THEN <<>> ELSE Head(ss) \o Flatten(Tail(ss))

\* the two hex digits of a byte
ByteHex(b) == <<b \div 16, b % 16>>

HexOfBytes(bs) == Flatten([i \in 1..Len(bs) |-> ByteHex(bs[i])])

\* STOP, ADD, PUSH1, PUSH2, PUSH32
ByteAlphabet == {0, 1, 96, 97, 127}

\* PUSH1 01, PUSH2 0203, STOP
ExampleCode == Hex(FALSE, HexOfBytes(<<96, 1, 97, 2, 3, 0>>))

\* every short byte string, also cut in the middle of its last byte
DisasmCodes ==
    { Hex(FALSE, HexOfBytes(bs) \o odd) :
        bs \in SeqsUpTo(ByteAlphabet, MaxCodeLen), odd \in {<<>>, <<6>>} }
    \cup {ExampleCode}

\* n JUMPDESTs: pc = instruction index
OneByteCode(n) == Hex(FALSE, HexOfBytes([i \in 1..n |-> 91]))
\* PUSH1 00 followed by n - 1 JUMPDESTs: pc = instruction index + 1 after it
PushFirstCode(n) ==
    Hex(FALSE, HexOfBytes(<<96, 0>> \o [i \in 1..(n - 1) |-> 91]))

ParserCodeLen == MaxRun + 9

EntryAlphabet ==
    { <<E>>, <<N(10), N(5), N(0), J>>, <<N(20), N(3), N(0), J>>,
      <<E, E, N(1)>>, <<B, N(3), N(0), J>>, <<N(4)>>, <<E, N(2), B>> }

SmallMaps ==
    (UNION { [1..k -> EntryAlphabet] : k \in 1..MaxEntries }) \ {EmptyString}

\* first followed by n - 1 empty entries, which inherit every field
Run(first, n) ==
    IF n = 0 THEN <<>> ELSE <<first>> \o [k \in 1..(n - 1) |-> <<E>>]

RunLengths == {0} \cup ((MaxRun - 2)..MaxRun)

\* a user run, a compiler-generated run, a user run
ParserMaps ==
    ({ Run(<<N(4), N(1), N(0), J>>, a) \o Run(<<E, E, N(1)>>, b)
           \o Run(<<N(7), E, N(0)>>, c) :
         a \in {0, 2}, b \in RunLengths, c \in {0, 1} } \ {<<>>})
    \cup { <<<<N(0), N(1), N(-1), J>>>>, <<<<N(0), N(1), B, J>>, <<N(4)>>>> }

\* what the compiler returns for a source file
Compiled(src, sm, obj) == [source |-> src, sourceMap |-> sm, object |-> obj]

ParserContracts ==
    { Compiled(SourceA, m, OneByteCode(ParserCodeLen)) : m \in ParserMaps }
    \cup { Compiled(SourceB, EmptyString, OneByteCode(2)),
           Compiled(SourceB, <<<<N(0), N(1), N(0), J>>>>, Hex(FALSE, <<>>)) }

\* eth_getCode of the called address: absent, empty, or 0x-prefixed code
DeployedCodes ==
    { None, Some(Hex(TRUE, <<>>)),
      Some(Hex(TRUE, PushFirstCode(ParserCodeLen).digs)) }

PCs == 0..(ParserCodeLen + 1)

\* "a\n\n b\n": an empty line, and a newline at the end of the text
SourceC == << <<"a">>, <<>>, <<" ", "b">>, <<>> >>

\* one instruction whose entry starts at offset s of the user's file
LocateContracts ==
    { Compiled(src, <<<<N(st), N(1), N(0), J>>>>, OneByteCode(1)) :
        src \in {SourceA, SourceB, SourceC}, st \in 0..MaxStart }

----------------------------------------------------------------------------
(* StorageLayoutParser.getFunctionContext *)

NoContextCall == [called |-> FALSE, lineNumber |-> 0, result |-> None]

\* \w of a regular expression
WordChars ==
    { "a", "b", "c", "d", "e", "f", "g", "h", "i", "j", "k", "l", "m",
      "n", "o", "p", "q", "r", "s", "t", "u", "v", "w", "x", "y", "z",
      "A", "B", "C", "D", "E", "F", "G", "H", "I", "J", "K", "L", "M",
      "N", "O", "P", "Q", "R", "S", "T", "U", "V", "W", "X", "Y", "Z",
      "0", "1", "2", "3", "4", "5", "6", "7", "8", "9", "_" }

\* "function"
FunctionWord == <<"f", "u", "n", "c", "t", "i", "o", "n">>

\* text.includes(pattern)
Includes(text, pattern) ==
    \E i \in 1..(Len(text) - Len(pattern) + 1) :
        SubSeq(text, i, i + Len(pattern) - 1) = pattern

\* the keyword at position i, then k >= 1 whitespace, then a word character
MatchesAt(line, i, k) ==
    /\ i + Len(FunctionWord) + k <= Len(line)
    /\ SubSeq(line, i, i + Len(FunctionWord) - 1) = FunctionWord
    /\ \A j \in 1..k : IsSpace(line[i + Len(FunctionWord) - 1 + j])
    /\ line[i + Len(FunctionWord) + k] \in WordChars

RECURSIVE WordFrom(_, _)
\* (\w+) is greedy: the longest run of word characters from position p
WordFrom(line, p) ==
    IF p <= Len(line) /\ line[p] \in WordChars
    THEN <<line[p]>> \o WordFrom(line, p + 1) ELSE <<>>

\* line.match(/function\s+(\w+)/): <<>> for no match, else <<match[1]>>
MatchFunction(line) ==
    LET hits == { i \in 1..Len(line) : \E k \in 1..Len(line) : MatchesAt(line, i, k) }
    IN IF hits = {} THEN None
       ELSE LET i == CHOOSE a \in hits : \A b \in hits : a <= b
                k == CHOOSE a \in 1..Len(line) : MatchesAt(line, i, a)
            IN Some(WordFrom(line, i + Len(FunctionWord) + k))

\* lines[i]?.trim() || '' (i counts from 0)
TrimmedLineAt(lines, i) ==
    IF i >= 0 /\ i < Len(lines) THEN Trim(lines[i + 1]) ELSE <<>>

\* lines 961-963: the line declares a function with a name
IsDeclaration(line) ==
    Includes(line, FunctionWord \o <<" ">>) /\ MatchFunction(line) # None

RECURSIVE FindFunctionStart(_, _)
\* for (i = lineNumber - 1; i >= 0; i--): functionStartLine, or -1
FindFunctionStart(lines, i) ==
    IF i < 0 THEN -1
    ELSE IF IsDeclaration(TrimmedLineAt(lines, i)) THEN i + 1
    ELSE FindFunctionStart(lines, i - 1)

RECURSIVE ScanChars(_, _, _, _)
\* for (const char of line): the depth after the line, and whether the
\* depth came back to zero with inFunction set
ScanChars(line, k, braceDepth, inFunction) ==
    IF k > Len(line) THEN [braceDepth |-> braceDepth, ended |-> FALSE]
    ELSE LET depth == braceDepth + (IF line[k] = "{" THEN 1 ELSE 0)
                                 - (IF line[k] = "}" THEN 1 ELSE 0)
         IN IF depth = 0 /\ inFunction
            THEN [braceDepth |-> depth, ended |-> TRUE]
            ELSE ScanChars(line, k + 1, depth, inFunction)

RECURSIVE FindFunctionEnd(_, _, _, _)
\* for (i = functionStartLine - 1; i < lines.length; i++):
\* functionEndLine, or -1; inFunction is set after the characters of a line
FindFunctionEnd(lines, i, braceDepth, inFunction) ==
    IF i >= Len(lines) THEN -1
    ELSE LET r == ScanChars(lines[i + 1], 1, braceDepth, inFunction)
         IN IF r.ended THEN i + 1
            ELSE FindFunctionEnd(lines, i + 1, r.braceDepth,
                                 inFunction \/ r.braceDepth > 0)

ContextOutcome(lineNumber, result) ==
    [called |-> TRUE, lineNumber |-> lineNumber, result |-> result]

getFunctionContext(lines, lineNumber) ==
    IF lines = EmptyText THEN ContextOutcome(lineNumber, None)
    ELSE
      LET functionStartLine == FindFunctionStart(lines, lineNumber - 1)
      IN IF functionStartLine = -1 THEN ContextOutcome(lineNumber, None)
         ELSE
           LET found == FindFunctionEnd(lines, functionStartLine - 1, 0, FALSE)
               functionEndLine == IF found = -1 THEN Len(lines) ELSE found
           IN ContextOutcome(lineNumber, Some(
                [functionName |->
                     MatchFunction(TrimmedLineAt(lines, functionStartLine - 1))[1],
                 startLine |-> functionStartLine,
                 endLine |-> functionEndLine,
                 code |-> SubSeq(lines, functionStartLine, functionEndLine),
                 revertLine |-> lineNumber]))

\* lines of Solidity text
FunctionLines ==
    { <<"f", "u", "n", "c", "t", "i", "o", "n", " ", "f", "(", ")", " ", "{">>,
      <<"}">>,
      <<" ", "x", ";">>,
      <<"f", "u", "n", "c", "t", "i", "o", "n", " ", "g", "(", ")", " ", "{", " ", "x", ";", " ", "}">>,
      <<"f", "u", "n", "c", "t", "i", "o", "n", " ", "(", ")", " ", "{">>,
      <<"f", "u", "n", "c", "t", "i", "o", "n", " ", "h", "(", ")">>,
      <<"{">>,
      <<" ", "i", "f", " ", "(", "x", ")", " ", "{">> }

\* every text of up to MaxLines of these lines
FunctionSources ==
    (UNION { [1..n -> FunctionLines] : n \in 1..MaxLines }) \ {EmptyText}

----------------------------------------------------------------------------
(* StorageLayoutParser.decodeValue *)

NoDecodeCall == [called |-> FALSE, hexValue |-> None, type |-> None,
                 result |-> None]

\* text.slice(a, b) for 0 <= a <= b
Slice(text, a, b) ==
    SubSeq(text, a + 1, IF b <= Len(text) THEN b ELSE Len(text))

\* a returned string: one of the fixed texts (kind is the text), a decimal
\* number (digs its digits), 0x-prefixed or bare hex (digs its digits), or a
\* quoted string (digs its character codes)
Out(kind, pfx, digs) == [kind |-> kind, pfx |-> pfx, digs |-> digs]

\* The number is held in limbs of four decimal digits (base 10000), lowest
\* limb first, and the hex digits are taken four at a time (base 65536).
RECURSIVE MulAdd(_, _, _)
\* limbs * m + c
MulAdd(limbs, m, c) ==
    IF limbs = <<>>
    THEN IF c = 0 THEN <<>>
         ELSE <<c % 10000>> \o MulAdd(<<>>, m, c \div 10000)
    ELSE <<(Head(limbs) * m + c) % 10000>>
           \o MulAdd(Tail(limbs), m, (Head(limbs) * m + c) \div 10000)

\* hex with zeros in front up to a multiple of four digits
PadToChunks(hex) == Zeros((4 - (Len(hex) % 4)) % 4) \o hex

RECURSIVE DecimalLimbs(_, _)
\* the limbs of the number written by the first k chunks of padded
DecimalLimbs(padded, k) ==
    IF k = 0 THEN <<>>
    ELSE MulAdd(DecimalLimbs(padded, k - 1), 65536,
                HexValue(SubSeq(padded, 4 * k - 3, 4 * k)))

LimbDigits(v) ==
    <<v \div 1000, (v \div 100) % 10, (v \div 10) % 10, v % 10>>

Reverse(q) == [i \in 1..Len(q) |-> q[Len(q) + 1 - i]]

\* BigInt('0x' + hex).toString() for a non-empty hex: the decimal digits
BigIntToString(hex) ==
    LET limbs == DecimalLimbs(PadToChunks(hex), Len(PadToChunks(hex)) \div 4)
        digits == StripZeros(Flatten([i \in 1..Len(limbs) |->
                                        LimbDigits(Reverse(limbs)[i])]))
    IN IF digits = <<>> THEN <<0>> ELSE digits

\* BigInt('0x' + hex).toString(), or hexValue from the catch: BigInt('0x')
\* is a SyntaxError
DecimalOrRaw(hexValue, hex) ==
    IF hex = <<>> THEN Out("hex", hexValue.pfx, hexValue.digs)
    ELSE Out("decimal", FALSE, BigIntToString(hex))

\* the character codes of the pairs of stringHex
CharCodes(stringHex) ==
    [k \in 1..((Len(stringHex) + 1) \div 2) |->
        HexValue(Slice(stringHex, 2 * (k - 1), 2 * k))]

\* variant: a string of 31 bytes is taken for a long one
DecodeStringShort(hex) ==
    IF hex = Zeros(64) THEN Out("quoted", FALSE, <<>>)
    ELSE LET lastByte == parseIntHex(Slice(hex, 62, 64))
         IN IF ~lastByte.nan /\ lastByte.v % 2 = 0
               /\ lastByte.v \div 2 > 0 /\ lastByte.v \div 2 < 31
            THEN Out("quoted", FALSE,
                     CharCodes(Slice(hex, 0, (lastByte.v \div 2) * 2)))
            ELSE Out("string (long)", FALSE, <<>>)

\* lines 1034-1056
DecodeString(hex) ==
    IF hex = Zeros(64) THEN Out("quoted", FALSE, <<>>)
    ELSE LET lastByte == parseIntHex(Slice(hex, 62, 64))
         IN IF ~lastByte.nan /\ lastByte.v % 2 = 0
               /\ lastByte.v \div 2 > 0 /\ lastByte.v \div 2 <= 31
            THEN Out("quoted", FALSE,
                     CharCodes(Slice(hex, 0, (lastByte.v \div 2) * 2)))
            ELSE Out("string (long)", FALSE, <<>>)

\* variant: the address is cut one byte short
AddressOfShort(hex) == Out("hex", TRUE, Slice(hex, 26, 64))

\* '0x' + hex.slice(24, 64)
AddressOf(hex) == Out("hex", TRUE, Slice(hex, 24, 64))

\* hex === '0'.repeat(64) ? 'false' : 'true'
BoolOf(hex) ==
    IF hex = Zeros(64) THEN Out("false", FALSE, <<>>)
    ELSE Out("true", FALSE, <<>>)

TypeString  == <<"s", "t", "r", "i", "n", "g">>
TypeAddress == <<"a", "d", "d", "r", "e", "s", "s">>
TypeBool    == <<"b", "o", "o", "l">>
TypeUint    == <<"u", "i", "n", "t">>
TypeInt     == <<"i", "n", "t">>
TypeBytes   == <<"b", "y", "t", "e", "s">>

decodeValue(hexValue, type) ==
    LET hex == hexValue.digs
    IN IF Includes(type, TypeString) THEN DecodeString(hex)
       ELSE IF Includes(type, TypeAddress) THEN AddressOf(hex)
       ELSE IF Includes(type, TypeBool) THEN BoolOf(hex)
       ELSE IF Includes(type, TypeUint) \/ Includes(type, TypeInt)
       THEN DecimalOrRaw(hexValue, hex)
       ELSE IF Includes(type, TypeBytes) THEN Out("hex", TRUE, hex)
       ELSE DecimalOrRaw(hexValue, hex)

\* 32-byte words: 0, 1, 0x11, 0xff, 0x100, the top bit, 2^256 - 1, an
\* address with a flag packed above it, "hi" (0x68 0x69, length byte 4), a
\* long string (last byte odd), last byte 0x40, and 31 bytes of text
\* (last byte 0x3e)
Words ==
    { Zeros(64),
      Zeros(63) \o <<1>>,
      Zeros(62) \o <<1, 1>>,
      Zeros(62) \o <<15, 15>>,
      Zeros(61) \o <<1, 0, 0>>,
      <<8>> \o Zeros(63),
      [i \in 1..64 |-> 15],
      Zeros(22) \o <<0, 1>> \o [i \in 1..40 |-> (i * 7) % 16],
      <<6, 8, 6, 9>> \o Zeros(58) \o <<0, 4>>,
      Zeros(62) \o <<4, 1>>,
      <<6, 8>> \o Zeros(60) \o <<4, 0>>,
      [i \in 1..62 |-> IF i % 2 = 1 THEN 6 ELSE 1 + ((i \div 2) % 9)]
        \o <<3, 14>> }

\* 32-byte words with and without 0x, and the texts "", "0x" and "0x0"
HexValues ==
    { Hex(pfx, w) : pfx \in BOOLEAN, w \in Words }
    \cup { Hex(FALSE, <<>>), Hex(TRUE, <<>>), Hex(TRUE, <<0>>) }

DeclaredTypes ==
    { <<"b", "o", "o", "l">>,
      <<"u", "i", "n", "t", "2", "5", "6">>,
      <<"u", "i", "n", "t", "8">>,
      <<"i", "n", "t", "2", "5", "6">>,
      <<"i", "n", "t">>,
      <<"a", "d", "d", "r", "e", "s", "s">>,
      <<"s", "t", "r", "i", "n", "g">>,
      <<"b", "y", "t", "e", "s", "3", "2">>,
      <<"b", "y", "t", "e", "s">>,
      <<"t", "_", "b", "o", "o", "l">>,
      <<"t", "_", "u", "i", "n", "t", "2", "5", "6">>,
      <<"t", "_", "a", "d", "d", "r", "e", "s", "s">>,
      <<"P", "o", "i", "n", "t">>,
      <<"m", "a", "p", "p", "i", "n", "g", "(", "a", "d", "d", "r", "e", "s", "s", " ", "=", ">", " ", "u", "i", "n", "t", "2", "5", "6", ")">> }

----------------------------------------------------------------------------
(* StorageLayoutParser: constructor, parseContract, getSourceLocation *)

ParserNew ==
    /\ sourceCode = EmptyText
    /\ sourceMap = EmptyString
    /\ bytecode = Hex(FALSE, <<>>)
    /\ pcToInstructionIndex = EmptyMap
    /\ sourceMapCache = EmptyMap
    /\ ppc = "new"
    /\ loc = NoCall
    /\ fnContext = NoContextCall
    /\ decoded = NoDecodeCall

\* deployedBytecode.startsWith('0x') ? deployedBytecode.slice(2) : ...
StripPrefix(h) == Hex(FALSE, h.digs)

\* parseContract is one synchronous block.  outcome "readError": readFileSync
\* throws; "early": one of the early returns after the source was stored
\* (compilation error, no contract, no storage layout); "ok": the rest.
parseContract(p, c, deployedBytecode, outcome) ==
    LET code == IF outcome = "ok" /\ Truthy(c.object)
                THEN IF deployedBytecode # None
                        /\ Truthy(deployedBytecode[1])
                     THEN StripPrefix(deployedBytecode[1])
                     ELSE c.object
                ELSE p.bytecode
    IN [sourceCode |-> IF outcome = "readError" THEN p.sourceCode
                       ELSE c.source,
        sourceMap |-> IF outcome = "ok" /\ c.sourceMap # EmptyString
                      THEN c.sourceMap ELSE p.sourceMap,
        bytecode |-> code,
        pcToInstructionIndex |->
            IF outcome = "ok" /\ Truthy(c.object)
            THEN buildPCToInstructionMap(code)
            ELSE p.pcToInstructionIndex]

\* parseContract on the parser of the single-parser specifications
ParseContract(c, deployedBytecode, outcome) ==
    /\ \E p \in { parseContract([sourceCode |-> sourceCode,
                                  sourceMap |-> sourceMap,
                                  bytecode |-> bytecode,
                                  pcToInstructionIndex |->
                                      pcToInstructionIndex],
                                 c, deployedBytecode, outcome) } :
          /\ sourceCode' = p.sourceCode
          /\ sourceMap' = p.sourceMap
          /\ bytecode' = p.bytecode
          /\ pcToInstructionIndex' = p.pcToInstructionIndex
    /\ ppc' = "parsed"
    /\ sourceMapCache' = EmptyMap
    /\ loc' = NoCall
    /\ fnContext' = NoContextCall
    /\ UNCHANGED decoded

ParseContractStep ==
    \E c \in ParserContracts, d \in DeployedCodes,
       o \in {"readError", "early", "ok"} : ParseContract(c, d, o)

\* variant: an unresolved pc is given the location returned last
GetSourceLocationSticky(pc) ==
    /\ loc' = LET r == getSourceLocation(sourceCode, sourceMap,
                                         pcToInstructionIndex, pc)
              IN IF r.result = None /\ loc.called
                 THEN [r EXCEPT !.result = loc.result] ELSE r
    /\ sourceMapCache' = IF loc'.via \in {"unloaded", "nopc"} THEN EmptyMap
                         ELSE buildSourceMapCache(sourceMap)
    /\ UNCHANGED <<sourceCode, sourceMap, bytecode, pcToInstructionIndex, ppc,
                   fnContext, decoded>>

GetSourceLocation(pc) ==
    /\ loc' = getSourceLocation(sourceCode, sourceMap, pcToInstructionIndex, pc)
    /\ sourceMapCache' = IF loc'.via \in {"unloaded", "nopc"} THEN EmptyMap
                         ELSE buildSourceMapCache(sourceMap)
    /\ UNCHANGED <<sourceCode, sourceMap, bytecode, pcToInstructionIndex, ppc,
                   fnContext, decoded>>

GetSourceLocationStep == \E pc \in PCs : GetSourceLocation(pc)

\* getFunctionContext(lineNumber), 0 to one past the longest text
GetFunctionContext ==
    /\ \E lineNumber \in 0..(MaxLines + 1) :
          fnContext' = getFunctionContext(sourceCode, lineNumber)
    /\ UNCHANGED <<sourceCode, sourceMap, bytecode, pcToInstructionIndex,
                   sourceMapCache, ppc, loc, decoded>>

\* decodeValue applied to the arguments of the call
DecodeValue ==
    /\ ~decoded.called
    /\ decoded.hexValue # None
    /\ decoded' = [decoded EXCEPT !.called = TRUE,
                     !.result = Some(decodeValue(decoded.hexValue[1],
                                                 decoded.type[1]))]
    /\ UNCHANGED <<sourceCode, sourceMap, bytecode, pcToInstructionIndex,
                   sourceMapCache, ppc, loc, fnContext>>

\* lines 521-524 of parseContract on their own
BuildPCMap ==
    /\ ppc = "bytecodeSet"
    /\ pcToInstructionIndex' = buildPCToInstructionMap(bytecode)
    /\ ppc' = "parsed"
    /\ UNCHANGED <<sourceCode, sourceMap, bytecode, sourceMapCache, loc,
                   fnContext, decoded>>

----------------------------------------------------------------------------
(* Specifications *)

\* nothing of the service, the CLI or the API has started
ServiceIdle ==
    /\ seen = <<>>
    /\ requests = <<>>
    /\ heap = <<>>
    /\ cli = <<>>
    /\ http = <<>>

TraceIdle ==
    /\ traceResult = [structLogs |-> None]
    /\ traces = <<>>
    /\ storageChanges = NoChanges
    /\ tpc = "idle"
    /\ reply = SuccessReply
    /\ execResult = NotReturned

NextTrace ==
    \/ TraceStep /\ UNCHANGED <<parserVars, serviceVars>>
    \/ ParseTrace /\ UNCHANGED <<parserVars, serviceVars>>
    \/ ExtractStorageChanges /\ UNCHANGED <<parserVars, serviceVars>>
    \/ ReturnResult /\ UNCHANGED <<parserVars, serviceVars>>

\* one executeWithTrace call
InitExecutor == InitTrace /\ ParserNew /\ ServiceIdle

TraceSpec == InitExecutor /\ [][NextTrace]_vars

NextParser ==
    \/ ParseContractStep /\ UNCHANGED <<traceVars, serviceVars>>
    \/ GetSourceLocationStep /\ UNCHANGED <<traceVars, serviceVars>>

\* one StorageLayoutParser
InitParser == TraceIdle /\ ParserNew /\ ServiceIdle

Spec == InitParser /\ [][NextParser]_vars

\* the receipt and the tracer's reply are in, the trace is processed
InitRevert ==
    /\ traceResult = <<>>
    /\ traces = <<>>
    /\ storageChanges = [threw |-> FALSE, changes |-> <<>>]
    /\ tpc = "extracted"
    /\ reply \in Replies
    /\ execResult = NotReturned
    /\ ParserNew
    /\ ServiceIdle

NextRevert == ReturnResult /\ UNCHANGED <<parserVars, serviceVars>>

RevertSpec == InitRevert /\ [][NextRevert]_vars

ParseLocateContract ==
    \E c \in LocateContracts : ParseContract(c, None, "ok")

InitLocate == TraceIdle /\ ParserNew /\ ServiceIdle

NextLocate ==
    \/ ParseLocateContract /\ UNCHANGED <<traceVars, serviceVars>>
    \/ GetSourceLocationStep /\ UNCHANGED <<traceVars, serviceVars>>

LocateSpec == InitLocate /\ [][NextLocate]_vars

\* a file whose compilation stops after the source was stored; the
\* debug service parses one file with each parser it creates
ParseFunctionSource ==
    /\ ppc = "new"
    /\ \E src \in FunctionSources :
          ParseContract(Compiled(src, EmptyString, Hex(FALSE, <<>>)), None,
                        "early")

InitFunction == TraceIdle /\ ParserNew /\ ServiceIdle

NextFunction ==
    \/ ParseFunctionSource /\ UNCHANGED <<traceVars, serviceVars>>
    \/ GetFunctionContext /\ UNCHANGED <<traceVars, serviceVars>>

FunctionSpec == InitFunction /\ [][NextFunction]_vars

\* a new parser and the arguments of one decodeValue call
InitDecode ==
    /\ TraceIdle
    /\ ServiceIdle
    /\ sourceCode = EmptyText
    /\ sourceMap = EmptyString
    /\ bytecode = Hex(FALSE, <<>>)
    /\ pcToInstructionIndex = EmptyMap
    /\ sourceMapCache = EmptyMap
    /\ ppc = "new"
    /\ loc = NoCall
    /\ fnContext = NoContextCall
    /\ decoded \in { [called |-> FALSE, hexValue |-> Some(v),
                       type |-> Some(t), result |-> None] :
                        v \in HexValues, t \in DeclaredTypes }

NextDecode == DecodeValue /\ UNCHANGED <<traceVars, serviceVars>>

DecodeSpec == InitDecode /\ [][NextDecode]_vars

\* two maps over "ab\n c \nd": authored code, then generated code, then an
\* entry without fields; and one authored entry
FrameContracts ==
    { Compiled(SourceA, m, OneByteCode(4)) :
        m \in { << <<N(4), N(1), N(0), J>>, <<E, E, N(1)>>, <<E>> >>,
                << <<N(7), E, N(0)>> >> } }

\* the debug service parses one file with each parser it creates
ParseFrameContract ==
    /\ ppc = "new"
    /\ \E c \in FrameContracts, d \in DeployedCodes : ParseContract(c, d, "ok")
    /\ seen' = <<>>

\* getSourceLocation(pc); seen keeps the first result for pc, and whether
\* pc was asked again after another pc
ResolveAndRecord ==
    \E pc \in 0..4 :
        /\ GetSourceLocation(pc)
        /\ seen' = IF pc \notin DOMAIN seen
                   THEN MapSet(seen, pc, [result |-> loc'.result,
                                          again |-> FALSE])
                   ELSE IF loc.pc # pc
                   THEN [seen EXCEPT ![pc].again = TRUE]
                   ELSE seen

InitFrame == TraceIdle /\ ParserNew /\ ServiceIdle

NextFrame ==
    \/ ParseFrameContract /\ UNCHANGED <<traceVars, requests, heap, cli, http>>
    \/ ResolveAndRecord /\ UNCHANGED <<traceVars, requests, heap, cli, http>>
    \/ GetFunctionContext /\ UNCHANGED <<traceVars, serviceVars>>

FrameSpec == InitFrame /\ [][NextFrame]_vars

----------------------------------------------------------------------------
(* DebugService.debug: one call per HTTP request, suspended at its awaits *)

MaxRequests == 2    \* requests in flight together
MaxTrace == 2       \* steps of a trace before the reverting one

\* new StorageLayoutParser()
NewParser ==
    [sourceCode |-> EmptyText, sourceMap |-> EmptyString,
     bytecode |-> Hex(FALSE, <<>>), pcToInstructionIndex |-> EmptyMap]

\* variant: one parser object kept and filled again by every call
AllocateShared(h, p) == IF h = <<>> THEN <<p>> ELSE [h EXCEPT ![1] = p]

\* the objects created by new, in order of creation; a reference is a
\* position in this sequence
Allocate(h, p) == Append(h, p)

\* traces.findIndex(t => t.opcode === 'REVERT' || t.opcode === 'INVALID'),
\* counted from 1; 0 is -1
RevertIndex(tr) ==
    LET hits == { i \in 1..Len(tr) : tr[i].opcode \in {"REVERT", "INVALID"} }
    IN IF hits = {} THEN 0 ELSE CHOOSE i \in hits : \A j \in hits : i <= j

RECURSIVE TriggerStep(_, _, _)
\* for (i = revertIndex - 1; i >= 0; i--): the first step met whose
\* location is non-null with line > 0; 0 when the loop ends without one
TriggerStep(p, tr, i) ==
    IF i < 1 THEN 0
    ELSE LET tempLoc == getSourceLocation(p.sourceCode, p.sourceMap,
                                          p.pcToInstructionIndex,
                                          tr[i].pc).result
         IN IF tempLoc # None /\ tempLoc[1].line > 0 THEN i
            ELSE TriggerStep(p, tr, i - 1)

\* findAllRequires()[0]: the first line whose trimmed text includes
\* 'require(', <<>> when there is none
FirstRequire(lines) ==
    LET hits == { i \in 1..Len(lines) :
                    Includes(Trim(lines[i]), <<"r", "e", "q", "u", "i", "r", "e", "(">>) }
    IN IF hits = {} THEN None
       ELSE LET i == CHOOSE a \in hits : \A b \in hits : a <= b
            IN Some([line |-> i, snippet |-> Trim(lines[i])])

\* variant: any resolved location is taken
RevertLocationAnyLine(p, l) ==
    IF l # None /\ l[1].line > 0
    THEN Some([line |-> l[1].line, column |-> l[1].column,
               snippet |-> l[1].snippet,
               functionContext |->
                   getFunctionContext(p.sourceCode, l[1].line).result])
    ELSE LET req == FirstRequire(p.sourceCode)
         IN IF req = None THEN None
            ELSE Some([line |-> req[1].line, column |-> 1,
                       snippet |-> req[1].snippet,
                       functionContext |->
                           getFunctionContext(p.sourceCode,
                                              req[1].line).result])

\* lines 232-264: revertLocation from the location of the trigger pc, or
\* from the first require; <<>> is undefined
RevertLocation(p, l) ==
    IF l # None /\ l[1].line > 1
    THEN Some([line |-> l[1].line, column |-> l[1].column,
               snippet |-> l[1].snippet,
               functionContext |->
                   getFunctionContext(p.sourceCode, l[1].line).result])
    ELSE LET req == FirstRequire(p.sourceCode)
         IN IF req = None THEN None
            ELSE Some([line |-> req[1].line, column |-> 1,
                       snippet |-> req[1].snippet,
                       functionContext |->
                           getFunctionContext(p.sourceCode,
                                              req[1].line).result])

\* a call of debug: its arguments and what the chain returns for it
\* (input), its position, and its local variables; parser 0 is undefined.
\* usedTable, usedMap and created record what step 4 read and how many
\* parsers existed when it ran
NewRequest(in) ==
    [pc |-> "received", input |-> in, parser |-> 0, deployed |-> None,
     outcome |-> "none", triggerStep |-> 0, trigger |-> None, loc |-> None,
     revertLocation |-> None, usedTable |-> None, usedMap |-> None,
     created |-> 0]

\* step 4, lines 172-266, and the return of the session
Finish(req, h) ==
    LET tr == req.input.traces
        revertIndex == RevertIndex(tr)
    IN IF req.input.success \/ req.parser = 0 \/ revertIndex = 0
       THEN [req EXCEPT !.pc = "done"]
       ELSE LET p == h[req.parser]
                step == TriggerStep(p, tr, revertIndex - 1)
                triggerPC == IF step = 0 THEN tr[revertIndex].pc
                             ELSE tr[step].pc
                l == getSourceLocation(p.sourceCode, p.sourceMap,
                                       p.pcToInstructionIndex,
                                       triggerPC).result
            IN [req EXCEPT !.pc = "done", !.triggerStep = step,
                           !.trigger = Some(triggerPC), !.loc = l,
                           !.revertLocation = RevertLocation(p, l),
                           !.usedTable = Some(p.pcToInstructionIndex),
                           !.usedMap = Some(p.sourceMap),
                           !.created = Len(h)]

\* lines 145-146: a new parser, and parseContract run to its return
Parse(r, d) ==
    \E o \in {"readError", "early", "ok"} :
        /\ heap' = Allocate(heap, parseContract(NewParser,
                                                requests[r].input.path[1],
                                                d, o))
        /\ requests' = [requests EXCEPT ![r].pc = "parsing",
                                        ![r].parser = Len(heap'),
                                        ![r].deployed = d,
                                        ![r].outcome = o]

\* the controller calls debug, which runs to await executeWithTrace
Debug(r) ==
    /\ requests[r].pc = "received"
    /\ requests' = [requests EXCEPT ![r].pc = "executing"]
    /\ UNCHANGED heap

\* the execution arrives; lines 128-139 choose what follows
ExecuteReturns(r) ==
    /\ requests[r].pc = "executing"
    /\ IF requests[r].input.path = None
       THEN /\ requests' = [requests EXCEPT ![r] = Finish(requests[r], heap)]
            /\ UNCHANGED heap
       ELSE IF requests[r].input.to # None
       THEN /\ requests' = [requests EXCEPT ![r].pc = "fetching"]
            /\ UNCHANGED heap
       ELSE Parse(r, None)

\* executeWithTrace throws: the catch of lines 311-317 rethrows
ExecuteFails(r) ==
    /\ requests[r].pc = "executing"
    /\ requests' = [requests EXCEPT ![r].pc = "failed"]
    /\ UNCHANGED heap

\* provider.getCode returns the code at tx.to, or throws into the catch
\* of line 161 with no parser created
CodeReturns(r) ==
    /\ requests[r].pc = "fetching"
    /\ \/ Parse(r, requests[r].input.to)
       \/ /\ requests' = [requests EXCEPT ![r] = Finish(requests[r], heap)]
          /\ UNCHANGED heap

\* the await of parseContract resumes
ParseReturns(r) ==
    /\ requests[r].pc = "parsing"
    /\ requests' = [requests EXCEPT ![r] = Finish(requests[r], heap)]
    /\ UNCHANGED heap

\* "function f() {\n require(x);\n x;\n}": 33 characters
SourceR ==
    << <<"f", "u", "n", "c", "t", "i", "o", "n", " ", "f", "(", ")", " ", "{">>,
       <<" ", "r", "e", "q", "u", "i", "r", "e", "(", "x", ")", ";">>,
       <<" ", "x", ";">>,
       <<"}">> >>

\* entries of the user's file on lines 2 and 3, one of another file, one
\* that starts at the end of the text and one beyond it
DebugContracts ==
    { Compiled(SourceR,
               << <<N(16), N(1), N(0), J>>, <<E, E, N(1)>>,
                  <<N(29), E, N(0)>>, <<N(33)>>, <<N(40)>> >>,
               OneByteCode(5)),
      Compiled(SourceA,
               << <<N(4), N(1), N(0), J>>, <<N(8)>>, <<N(9)>> >>,
               OneByteCode(3)) }

Step(pc, opcode) == [pc |-> pc, opcode |-> opcode]

\* up to MaxTrace steps, then the step that ends the execution
DebugTraces ==
    { pre \o <<Step(pc, op)>> :
        pre \in UNION { [1..n -> { Step(q, "JUMPDEST") : q \in 0..5 }] :
                          n \in 0..MaxTrace },
        pc \in {0, 5}, op \in {"REVERT", "INVALID", "STOP"} }

DebugInputs ==
    UNION { { [path |-> Some(c), to |-> d, traces |-> tr, success |-> ok] :
                tr \in DebugTraces, ok \in BOOLEAN,
                d \in { None, Some(Hex(TRUE, c.object.digs)) } } :
            c \in DebugContracts }

\* two contracts whose tables differ, with and without deployed code
ConcurrentInputs ==
    { [path |-> p, to |-> d,
       traces |-> <<Step(2, "JUMPDEST"), Step(3, "REVERT")>>,
       success |-> FALSE] :
        p \in { None,
                Some(Compiled(SourceA,
                              << <<N(4), N(1), N(0), J>>, <<N(0)>> >>,
                              OneByteCode(4))),
                Some(Compiled(SourceR,
                              << <<N(16), N(1), N(0), J>>, <<N(29)>> >>,
                              PushFirstCode(3))) },
        d \in { None, Some(Hex(TRUE, HexOfBytes(<<91, 96, 0, 91>>))) } }

DebugIdle ==
    /\ TraceIdle
    /\ ParserNew
    /\ seen = <<>>
    /\ heap = <<>>
    /\ cli = <<>>
    /\ http = <<>>

InitDebug ==
    /\ DebugIdle
    /\ \E in \in DebugInputs : requests = <<NewRequest(in)>>

InitConcurrent ==
    /\ DebugIdle
    /\ requests \in [1..MaxRequests -> { NewRequest(in) : in \in ConcurrentInputs }]

NextDebug ==
    \/ \E r \in DOMAIN requests : Debug(r)
          /\ UNCHANGED <<traceVars, parserVars, seen, cli, http>>
    \/ \E r \in DOMAIN requests : ExecuteReturns(r)
          /\ UNCHANGED <<traceVars, parserVars, seen, cli, http>>
    \/ \E r \in DOMAIN requests : ExecuteFails(r)
          /\ UNCHANGED <<traceVars, parserVars, seen, cli, http>>
    \/ \E r \in DOMAIN requests : CodeReturns(r)
          /\ UNCHANGED <<traceVars, parserVars, seen, cli, http>>
    \/ \E r \in DOMAIN requests : ParseReturns(r)
          /\ UNCHANGED <<traceVars, parserVars, seen, cli, http>>

DebugSpec == InitDebug /\ [][NextDebug]_vars

ConcurrentSpec == InitConcurrent /\ [][NextDebug]_vars

----------------------------------------------------------------------------
(* The CLI debug command: ensureServer, startServer and the requests *)

\* while (attempts < 30)
maxAttempts == 30

\* the command as invoked: url is whether --server parses as a URL, up
\* whether a server answers /health with 2xx.  checks and failed count the
\* health checks made and those that returned false, polls those made by
\* startServer; started and ended follow startServer; sent counts the
\* requests to /api/debug
NewCommand(url, up) ==
    [pc |-> "invoked", url |-> url, up |-> up, attempts |-> 0, spawned |-> 0,
     checks |-> 0, failed |-> 0, polls |-> 0, started |-> FALSE,
     ended |-> "no", sent |-> 0, error |-> ""]

\* isServerRunning: response.ok, and false on a timeout of 2000 ms, a
\* refused connection or a URL fetch cannot parse
HealthResults(c) == IF c.up /\ c.url THEN {TRUE, FALSE} ELSE {FALSE}

\* a health check that returned result
Checked(c, result) ==
    [c EXCEPT !.checks = @ + 1, !.failed = IF result THEN @ ELSE @ + 1]

\* lines 141-149: ensureServer has returned, the request is sent
Fetch(c) == [c EXCEPT !.pc = "fetching", !.sent = @ + 1]

\* the catch of lines 274-280
Exit(c, message) == [c EXCEPT !.pc = "exited", !.error = message]

\* the action runs to the await of isServerRunning in ensureServer
Invoke ==
    /\ cli.pc = "invoked"
    /\ cli' = [cli EXCEPT !.pc = "ensuring"]

\* ensureServer resumes: return on true; else startServer runs to its
\* first poll, or new URL(serverUrl) throws
EnsureChecked ==
    /\ cli.pc = "ensuring"
    /\ \E result \in HealthResults(cli) :
          cli' = LET c == Checked(cli, result)
                 IN IF result THEN Fetch(c)
                    ELSE IF ~c.url
                    THEN Exit([c EXCEPT !.started = TRUE, !.ended = "threw"],
                              "Invalid URL")
                    ELSE [c EXCEPT !.started = TRUE, !.spawned = @ + 1,
                                   !.attempts = 0, !.pc = "polling"]

\* a poll of the loop resumes: return on true, else sleep
Polled ==
    /\ cli.pc = "polling"
    /\ \E result \in HealthResults(cli) :
          cli' = LET c == [Checked(cli, result) EXCEPT !.polls = @ + 1]
                 IN IF result THEN Fetch([c EXCEPT !.ended = "returned"])
                    ELSE [c EXCEPT !.pc = "sleeping"]

\* variant: the loop runs while attempts <= 30
SleptOnceMore ==
    /\ cli.pc = "sleeping"
    /\ cli' = LET c == [cli EXCEPT !.attempts = @ + 1]
              IN IF c.attempts <= maxAttempts THEN [c EXCEPT !.pc = "polling"]
                 ELSE Exit([c EXCEPT !.ended = "threw"],
                           "Server failed to start within 30 seconds")

\* the timer of line 62 fires: attempts++, then the loop test
Slept ==
    /\ cli.pc = "sleeping"
    /\ cli' = LET c == [cli EXCEPT !.attempts = @ + 1]
              IN IF c.attempts < maxAttempts THEN [c EXCEPT !.pc = "polling"]
                 ELSE Exit([c EXCEPT !.ended = "threw"],
                           "Server failed to start within 30 seconds")

\* the response of GET /api/debug arrives: the PDF request follows a 2xx
Responded ==
    /\ cli.pc = "fetching"
    /\ \E ok \in BOOLEAN :
          cli' = IF ok THEN [cli EXCEPT !.pc = "fetchingPDF", !.sent = @ + 1]
                 ELSE Exit(cli, "Server error")

\* the response of POST /api/debug/:txHash/pdf arrives
RespondedPDF ==
    /\ cli.pc = "fetchingPDF"
    /\ \E ok \in BOOLEAN :
          cli' = IF ok THEN [cli EXCEPT !.pc = "done"]
                 ELSE Exit(cli, "Failed to generate PDF")

\* a server comes up or goes down, whoever started it
ServerChanges ==
    /\ cli.pc \notin {"done", "exited"}
    /\ cli' = [cli EXCEPT !.up = ~@]

InitCli ==
    /\ TraceIdle
    /\ ParserNew
    /\ seen = <<>>
    /\ requests = <<>>
    /\ heap = <<>>
    /\ http = <<>>
    /\ \E url \in BOOLEAN, up \in BOOLEAN : cli = NewCommand(url, up)

NextCli ==
    \/ Invoke /\ UNCHANGED <<traceVars, parserVars, seen, requests, heap, http>>
    \/ EnsureChecked
          /\ UNCHANGED <<traceVars, parserVars, seen, requests, heap, http>>
    \/ Polled /\ UNCHANGED <<traceVars, parserVars, seen, requests, heap, http>>
    \/ Slept /\ UNCHANGED <<traceVars, parserVars, seen, requests, heap, http>>
    \/ Responded
          /\ UNCHANGED <<traceVars, parserVars, seen, requests, heap, http>>
    \/ RespondedPDF
          /\ UNCHANGED <<traceVars, parserVars, seen, requests, heap, http>>
    \/ ServerChanges
          /\ UNCHANGED <<traceVars, parserVars, seen, requests, heap, http>>

CliSpec == InitCli /\ [][NextCli]_vars

\* a health check ends within its 2000 ms timeout and the timer of the
\* loop fires: the steps of ensureServer and startServer are always taken
CliLiveSpec ==
    InitCli /\ [][NextCli]_vars
        /\ WF_cli(Invoke \/ EnsureChecked \/ Polled \/ Slept)

----------------------------------------------------------------------------
(* The API: the routes of setupRoutes, validateTxHash and the controllers *)

HexChars ==
    { "0", "1", "2", "3", "4", "5", "6", "7", "8", "9",
      "a", "b", "c", "d", "e", "f", "A", "B", "C", "D", "E", "F" }

\* variant: the pattern without its $ anchor
TestTxHashPrefix(txHash) ==
    /\ Len(txHash) >= 66
    /\ txHash[1] = "0"
    /\ txHash[2] = "x"
    /\ \A i \in 3..66 : txHash[i] \in HexChars

\* /^0x[a-fA-F0-9]{64}$/.test(txHash): the match starts at the first
\* character and ends at the end of the input
TestTxHash(txHash) ==
    /\ Len(txHash) = 66
    /\ txHash[1] = "0"
    /\ txHash[2] = "x"
    /\ \A i \in 3..66 : txHash[i] \in HexChars

\* the routes of lines 46-48: method, whether the path ends in /pdf, and
\* the controller
Routes ==
    { [method |-> "GET", pdf |-> FALSE, controller |-> "debugTransaction"],
      [method |-> "POST", pdf |-> FALSE, controller |-> "debugTransaction"],
      [method |-> "POST", pdf |-> TRUE, controller |-> "debugTransactionPDF"] }

\* a request for /api/debug/<txHash> or /api/debug/<txHash>/pdf
NewHttpRequest(method, pdf, txHash) ==
    [stage |-> "received", method |-> method, pdf |-> pdf, txHash |-> txHash,
     nextCalled |-> FALSE, threw |-> "", controller |-> "none",
     traceFetched |-> FALSE, pdfWritten |-> FALSE]

\* the router looks for a route; :txHash matches one or more characters
Dispatch ==
    /\ http.stage = "received"
    /\ http' = IF /\ Len(http.txHash) > 0
                  /\ \E rt \in Routes : /\ rt.method = http.method
                                        /\ rt.pdf = http.pdf
               THEN [http EXCEPT !.stage = "validating"]
               ELSE [http EXCEPT !.stage = "notFound"]

\* validateTxHash: next() hands the request to the controller of the route
ValidateTxHash ==
    /\ http.stage = "validating"
    /\ http' = IF ~TestTxHash(http.txHash)
               THEN [http EXCEPT !.stage = "failed",
                       !.threw = "Invalid Ethereum address format"]
               ELSE [http EXCEPT !.stage = "controller",
                       !.nextCalled = TRUE,
                       !.controller =
                           (CHOOSE rt \in Routes :
                               /\ rt.method = http.method
                               /\ rt.pdf = http.pdf).controller]

\* debugTransaction and debugTransactionPDF: the service fetches the
\* trace; the PDF is written when the service returned a session
Controller ==
    /\ http.stage = "controller"
    /\ \E ok \in BOOLEAN :
          http' = [http EXCEPT
                     !.stage = IF ok THEN "responded" ELSE "failed",
                     !.traceFetched = TRUE,
                     !.pdfWritten =
                         ok /\ http.controller = "debugTransactionPDF"]

Repeat(ch, n) == [i \in 1..n |-> ch]

TxHashes ==
    { <<"0", "x">> \o Repeat("a", 64),
      <<"0", "x">> \o Repeat("F", 64),
      <<"0", "x">> \o Repeat("9", 32) \o Repeat("c", 32),
      <<"0", "x">> \o Repeat("a", 63),
      <<"0", "x">> \o Repeat("a", 65),
      <<"0", "x">> \o Repeat("a", 40),
      <<"0", "X">> \o Repeat("a", 64),
      Repeat("a", 64),
      Repeat("0", 66),
      <<"0", "x">> \o Repeat("a", 63) \o <<"g">>,
      <<"0", "x">> \o Repeat("a", 64) \o <<"\n">>,
      <<" ", "0", "x">> \o Repeat("a", 64),
      <<>> }

InitHttp ==
    /\ TraceIdle
    /\ ParserNew
    /\ seen = <<>>
    /\ requests = <<>>
    /\ heap = <<>>
    /\ cli = <<>>
    /\ \E method \in {"GET", "POST"}, pdf \in BOOLEAN, txHash \in TxHashes :
          http = NewHttpRequest(method, pdf, txHash)

NextHttp ==
    \/ Dispatch /\ UNCHANGED <<traceVars, parserVars, seen, requests, heap, cli>>
    \/ ValidateTxHash
          /\ UNCHANGED <<traceVars, parserVars, seen, requests, heap, cli>>
    \/ Controller
          /\ UNCHANGED <<traceVars, parserVars, seen, requests, heap, cli>>

HttpSpec == InitHttp /\ [][NextHttp]_vars

\* the disassembler on every short bytecode
InitDisasm ==
    /\ TraceIdle
    /\ ServiceIdle
    /\ sourceCode = SourceA
    /\ sourceMap = EmptyString
    /\ bytecode \in DisasmCodes
    /\ pcToInstructionIndex = EmptyMap
    /\ sourceMapCache = EmptyMap
    /\ ppc = "bytecodeSet"
    /\ loc = NoCall
    /\ fnContext = NoContextCall
    /\ decoded = NoDecodeCall

NextDisasm == BuildPCMap /\ UNCHANGED <<traceVars, serviceVars>>

DisasmSpec == InitDisasm /\ [][NextDisasm]_vars

\* a parser loaded with every short source map
InitSourceMap ==
    /\ TraceIdle
    /\ ServiceIdle
    /\ sourceCode = SourceA
    /\ sourceMap \in SmallMaps
    /\ bytecode = OneByteCode(MaxEntries + 1)
    /\ pcToInstructionIndex = buildPCToInstructionMap(bytecode)
    /\ sourceMapCache = EmptyMap
    /\ ppc = "parsed"
    /\ loc = NoCall
    /\ fnContext = NoContextCall
    /\ decoded = NoDecodeCall

NextSourceMap == GetSourceLocationStep /\ UNCHANGED <<traceVars, serviceVars>>

SourceMapSpec == InitSourceMap /\ [][NextSourceMap]_vars

----------------------------------------------------------------------------
(* Properties of getSourceLocation                                         *)

\* the call got past the guards of lines 663-673 and built the cache
CacheBuilt ==
    /\ loc.called
    /\ sourceMap # EmptyString /\ sourceCode # EmptyText
    /\ loc.pc \in DOMAIN pcToInstructionIndex

\* C1: every non-null location returned by getSourceLocation is computed
\* from a source-map entry whose fileIndex is 0, on the direct path, the
\* backward walk and the +/-5 neighbour fallback alike.
C1_OnlyFileZeroEntries ==
    (loc.called /\ loc.result # None) =>
        /\ loc.used \in DOMAIN sourceMapCache
        /\ sourceMapCache[loc.used].fileIndex = Num(0)

\* indices j with i - 20 <= j < i, j >= 0, whose entry has fileIndex 0
C2_Candidates(i) ==
    { j \in 0..(i - 1) :
        /\ j >= i - 20
        /\ j \in DOMAIN sourceMapCache
        /\ sourceMapCache[j].fileIndex = Num(0) }

\* C2: when the entry of pc's instruction index i has fileIndex != 0, the
\* call resolves the entry at the largest j in [i-20, i) with fileIndex 0,
\* and returns null when there is none.
C2_BackwardWalk ==
    CacheBuilt =>
      LET i == pcToInstructionIndex[loc.pc]
      IN (i \in DOMAIN sourceMapCache
            /\ sourceMapCache[i].fileIndex # Num(0)) =>
           IF C2_Candidates(i) = {} THEN loc.result = None
           ELSE LET j == Max(C2_Candidates(i))
                IN /\ loc.used = j
                   /\ loc.result =
                        Some(Locate(sourceCode, sourceMapCache[j].start))

\* a compiler-generated instruction resolved to the authored entry exactly
\* 20 instructions before it
C2_Witness ==
    /\ CacheBuilt
    /\ pcToInstructionIndex[loc.pc] \in DOMAIN sourceMapCache
    /\ sourceMapCache[pcToInstructionIndex[loc.pc]].fileIndex # Num(0)
    /\ loc.result # None
    /\ pcToInstructionIndex[loc.pc] - loc.used = 20

----------------------------------------------------------------------------
(* Properties of buildPCToInstructionMap                                   *)

\* 1 + (opcode - 0x5f) bytes for PUSH1..PUSH32, 1 byte otherwise
C5_Width(opcode) ==
    IF opcode \in 96..127 THEN 1 + (opcode - 95) ELSE 1

\* C5: the table starts at offset 0 with index 0; from each instruction
\* start p the next one is p + width(opcode at p) with the next index, no
\* offset in between is a key, and the walk ends at the end of the code;
\* PUSH1 01, PUSH2 0203, STOP gives exactly {0->0, 2->1, 5->2}.
C5_TableWalk ==
    ppc = "parsed" =>
      LET code == bytecode.digs
          t == pcToInstructionIndex
      IN /\ (Len(code) > 0 => 0 \in DOMAIN t /\ t[0] = 0)
         /\ (Len(code) = 0 => DOMAIN t = {})
         /\ \A p \in DOMAIN t :
              LET w == C5_Width(OpcodeAt(code, p))
              IN /\ \A q \in (p + 1)..(p + w - 1) : q \notin DOMAIN t
                 /\ (2 * (p + w) < Len(code) =>
                        p + w \in DOMAIN t /\ t[p + w] = t[p] + 1)
                 /\ (2 * (p + w) >= Len(code) =>
                        \A q \in DOMAIN t : q <= p)
         /\ (bytecode = ExampleCode => t = (0 :> 0 @@ 2 :> 1 @@ 5 :> 2))

\* the table of the example bytecode was built
C5_Witness ==
    /\ ppc = "parsed"
    /\ bytecode = ExampleCode
    /\ Cardinality(DOMAIN pcToInstructionIndex) = 3

\* C6: for every bytecode, also one ending inside a PUSH operand, the
\* table's keys are offsets below the byte length, its values are exactly
\* 0..M-1 and they increase strictly with the key.
C6_DenseTable ==
    ppc = "parsed" =>
      LET t == pcToInstructionIndex
          M == Cardinality(DOMAIN t)
      IN /\ \A p \in DOMAIN t : p >= 0 /\ 2 * p < Len(bytecode.digs)
         /\ { t[p] : p \in DOMAIN t } = 0..(M - 1)
         /\ \A p, q \in DOMAIN t : p < q => t[p] < t[q]

\* a table built from a bytecode whose last PUSH lacks operand bytes
C6_Witness ==
    /\ ppc = "parsed"
    /\ \E p \in DOMAIN pcToInstructionIndex :
          /\ OpcodeAt(bytecode.digs, p) \in 96..127
          /\ 2 * (p + C5_Width(OpcodeAt(bytecode.digs, p)))
                > Len(bytecode.digs)
          /\ pcToInstructionIndex[p] >= 1

----------------------------------------------------------------------------
(* Properties of buildSourceMapCache                                       *)

\* "10:5:0:-;;20:3:0:-"
ExampleMap == << <<N(10), N(5), N(0), J>>, <<E>>, <<N(20), N(3), N(0), J>> >>

C7_Names == <<"start", "length", "fileIndex">>

\* field f (1..3) of the entry at position k (0-based) as written
C7_Written(k, f) ==
    IF f <= Len(sourceMap[k + 1]) THEN sourceMap[k + 1][f] ELSE E

\* C7: the cache has one entry per ';'-separated position, keyed by the
\* 0-based position; start, length and fileIndex are the number written in
\* the field when it is non-empty and the previous entry's value otherwise
\* (0 before the first entry); "10:5:0:-;;20:3:0:-" gives (10,5,0),
\* (10,5,0), (20,3,0).
C7_Decompress ==
    CacheBuilt =>
      /\ DOMAIN sourceMapCache = 0..(Len(sourceMap) - 1)
      /\ \A k \in 0..(Len(sourceMap) - 1) : \A f \in 1..3 :
            LET w == C7_Written(k, f)
                got == sourceMapCache[k][C7_Names[f]]
            IN /\ w.k = "num" => got = Num(w.n)
               /\ w.k = "empty" =>
                     got = IF k = 0 THEN Num(0)
                           ELSE sourceMapCache[k - 1][C7_Names[f]]
      /\ (sourceMap = ExampleMap =>
            sourceMapCache =
              (0 :> [start |-> Num(10), length |-> Num(5), fileIndex |-> Num(0)]
            @@ 1 :> [start |-> Num(10), length |-> Num(5), fileIndex |-> Num(0)]
            @@ 2 :> [start |-> Num(20), length |-> Num(3), fileIndex |-> Num(0)]))

\* the example map was decompressed
C7_Witness ==
    /\ CacheBuilt
    /\ sourceMap = ExampleMap
    /\ DOMAIN sourceMapCache = 0..2

\* positions whose start, length or fileIndex field is text that is not a
\* number
C8_Unparseable ==
    { k \in 0..(Len(sourceMap) - 1) :
        \E f \in 1..3 : C7_Written(k, f).k \notin {"num", "empty"} }

\* C8: decompression stops at the first entry with an unparseable field:
\* the cache holds exactly the entries before it, and no entry carries a
\* non-numeric start, length or fileIndex.
C8_StopsAtUnparseable ==
    (CacheBuilt /\ C8_Unparseable # {}) =>
      /\ DOMAIN sourceMapCache =
            { k \in 0..(Len(sourceMap) - 1) :
                \A b \in C8_Unparseable : k < b }
      /\ \A k \in DOMAIN sourceMapCache :
            /\ ~sourceMapCache[k].start.nan
            /\ ~sourceMapCache[k].length.nan
            /\ ~sourceMapCache[k].fileIndex.nan

----------------------------------------------------------------------------
(* Properties of extractStorageChanges and parseTrace                      *)

Top(stack) == stack[Len(stack)]

\* positions (1-based) of the SLOADs of slot before step k whose result is
\* visible on the following step
C3_PriorLoads(k, slot) ==
    { i \in 1..Len(traces) :
        /\ traces[i].step < k
        /\ traces[i].opcode = "SLOAD"
        /\ Len(traces[i].stack) >= 1
        /\ padHex(Top(traces[i].stack), 64) = slot
        /\ i + 1 <= Len(traces)
        /\ Len(traces[i + 1].stack) >= 1 }

C3_Expected(k, slot) ==
    IF C3_PriorLoads(k, slot) = {} THEN Hex(TRUE, Zeros(64))
    ELSE Top(traces[Max(C3_PriorLoads(k, slot)) + 1].stack)

\* C3: the oldValue of the change emitted for an SSTORE at step k of slot s
\* is the value loaded by the latest SLOAD of s before step k, and 32 zero
\* bytes when there is none; later SLOADs do not affect it.
C3_OldValueFromPriorLoad ==
    tpc = "extracted" =>
        \A j \in 1..Len(storageChanges.changes) :
            LET ch == storageChanges.changes[j]
            IN ch.oldValue = C3_Expected(ch.step, ch.slot)

\* positions (1-based) of the steps that carry a storage write
C4_WritePositions == { i \in 1..Len(traces) : traces[i].storage # None }

\* C4: extractStorageChanges emits exactly one change per step carrying a
\* storage write, in increasing step order, each with that step's index.
C4_OneChangePerWrite ==
    tpc \in {"extracted", "threw"} =>
        /\ ~storageChanges.threw
        /\ Len(storageChanges.changes) = Cardinality(C4_WritePositions)
        /\ \A j \in 1..Len(storageChanges.changes) :
              /\ storageChanges.changes[j].step + 1 \in C4_WritePositions
              /\ Cardinality({ i \in C4_WritePositions :
                    i <= storageChanges.changes[j].step + 1 }) = j

\* positions of the SLOADs of slot, anywhere in the trace, whose loaded
\* value is on the stack of the step that follows
C26_Loads(slot) ==
    { i \in 1..(Len(traces) - 1) :
        /\ traces[i].opcode = "SLOAD"
        /\ Len(traces[i].stack) >= 1
        /\ Truthy(Top(traces[i].stack))
        /\ padHex(Top(traces[i].stack), 64) = slot
        /\ Len(traces[i + 1].stack) >= 1
        /\ Truthy(Top(traces[i + 1].stack)) }

\* C26: all the changes of one slot emitted by one call carry the same
\* oldValue, the value loaded by the last SLOAD of the slot in the whole
\* trace, or 32 zero bytes when there is none; an earlier write to the
\* slot has no part in it.
C26_SameOldValue ==
    tpc = "extracted" =>
        \A j \in 1..Len(storageChanges.changes) :
            LET ch == storageChanges.changes[j]
            IN /\ ch.oldValue
                      = IF C26_Loads(ch.slot) = {} THEN Hex(TRUE, Zeros(64))
                        ELSE Top(traces[Max(C26_Loads(ch.slot)) + 1].stack)
               /\ \A k \in 1..Len(storageChanges.changes) :
                      storageChanges.changes[k].slot = ch.slot
                          => storageChanges.changes[k].oldValue = ch.oldValue

\* two writes to one slot that was also loaded were emitted, and the second
\* does not carry the value the first wrote
C26_Witness ==
    /\ tpc = "extracted"
    /\ \E j, k \in 1..Len(storageChanges.changes) :
          /\ j < k
          /\ storageChanges.changes[j].slot = storageChanges.changes[k].slot
          /\ C26_Loads(storageChanges.changes[k].slot) # {}
          /\ storageChanges.changes[k].oldValue
                 # storageChanges.changes[j].newValue

C9_Raw == IF traceResult.structLogs = None THEN <<>>
          ELSE traceResult.structLogs[1]

\* C9: parseTrace is 1:1: the output has the length of the raw array (0
\* when the array is missing), element i is built from raw record i and
\* its step index is i.
C9_OneToOne ==
    tpc \in {"parsed", "extracted", "threw"} =>
        /\ Len(traces) = Len(C9_Raw)
        /\ \A i \in 1..Len(traces) :
              /\ traces[i].step = i - 1
              /\ traces[i].pc = C9_Raw[i].pc
              /\ traces[i].opcode = C9_Raw[i].op
              /\ traces[i].gas = C9_Raw[i].gas
              /\ Some(traces[i].depth) = C9_Raw[i].depth

\* a trace of several steps went through parseTrace
C9_Witness ==
    /\ tpc = "parsed"
    /\ Len(traces) >= 2
    /\ traces[2].pc # traces[1].pc

\* C10: gasCost of step i > 0 is gas[i-1] - gas[i] whatever gas[i-1] is;
\* gasCost of step 0 is the raw gasCost when present and 0 otherwise.
C10_GasCostIsDelta ==
    tpc \in {"parsed", "extracted", "threw"} =>
        \A i \in 1..Len(traces) :
            IF i = 1
            THEN traces[i].gasCost =
                    (IF C9_Raw[i].gasCost = None THEN 0
                     ELSE C9_Raw[i].gasCost[1])
            ELSE traces[i].gasCost = traces[i - 1].gas - traces[i].gas

\* w left-padded with zeros to 64 hex digits, 0x-prefixed
C11_IsPadded64(p, w) ==
    /\ p.pfx
    /\ Len(p.digs) = 64
    /\ \A d \in 1..64 :
          p.digs[d] = IF d <= 64 - Len(w.digs) THEN 0
                      ELSE w.digs[d - (64 - Len(w.digs))]

\* C11: a step carries a storage write iff its opcode is SSTORE and its
\* stack has at least two entries; the key is the stack top and the value
\* the entry below it, each left-padded to 64 hex digits.
C11_StorageWrite ==
    tpc \in {"parsed", "extracted", "threw"} =>
        \A i \in 1..Len(traces) :
            LET raw == C9_Raw[i]
                st == IF raw.stack = None THEN <<>> ELSE raw.stack[1]
            IN IF raw.op = "SSTORE" /\ Len(st) >= 2
               THEN /\ traces[i].storage # None
                    /\ C11_IsPadded64(traces[i].storage[1].key, st[Len(st)])
                    /\ C11_IsPadded64(traces[i].storage[1].value,
                                      st[Len(st) - 1])
               ELSE traces[i].storage = None

\* parseTrace met an SSTORE with two stack entries and one with a single
\* entry
C11_Witness ==
    /\ tpc = "parsed"
    /\ \E i \in 1..Len(traces) : traces[i].storage # None
    /\ \E i \in 1..Len(traces) :
          traces[i].opcode = "SSTORE" /\ traces[i].storage = None

\* C12: slot, oldValue and newValue of every emitted change are 64 hex
\* digits wide, also for stack words written without leading zeros, and
\* the SLOAD and SSTORE keys of one slot are equal in the lookup.
C12_Widths ==
    tpc = "extracted" =>
        \A j \in 1..Len(storageChanges.changes) :
            LET ch == storageChanges.changes[j]
            IN /\ Len(ch.slot.digs) = 64
               /\ Len(ch.oldValue.digs) = 64
               /\ Len(ch.newValue.digs) = 64

----------------------------------------------------------------------------
(* Properties of the revert reason                                         *)

\* the call failed and returned data
C13_Decoded ==
    /\ execResult.returned
    /\ reply.status = 0
    /\ reply.returnValue # None
    /\ reply.returnValue[1].digs # <<>>

C13_Data == reply.returnValue[1]

\* the codes the table knows
C13_Table ==
    (1 :> "Assertion failed"
  @@ 17 :> "Arithmetic overflow/underflow (unchecked)"
  @@ 18 :> "Division or modulo by zero"
  @@ 33 :> "Invalid enum value"
  @@ 34 :> "Invalid storage byte array"
  @@ 49 :> "Pop on empty array"
  @@ 50 :> "Array index out of bounds"
  @@ 65 :> "Out of memory"
  @@ 81 :> "Invalid internal function")

C13_Supplied ==
    IF reply.revertReason # None /\ reply.revertReason[1] # ""
    THEN reply.revertReason[1] ELSE "Transaction reverted"

\* C13: a Panic selector gives Panic(code) with the table's text for the
\* codes 0x01 .. 0x51 of the table and "Unknown panic" for any other code;
\* an Error selector with a decodable string gives Error: <string>; any
\* other data gives the plain revert reason, or "Transaction reverted".
C13_ReasonClassified ==
    C13_Decoded =>
      LET body == SubSeq(C13_Data.digs, 9, Len(C13_Data.digs))
          code == parseIntHex(body)
      IN IF StartsWith(C13_Data.digs, PanicSelector)
         THEN /\ execResult.error[1].kind = "Panic"
              /\ execResult.error[1].code = code
              /\ execResult.error[1].text =
                   IF \E k \in DOMAIN C13_Table : code = Num(k)
                   THEN C13_Table[code.v] ELSE "Unknown panic"
         ELSE IF StartsWith(C13_Data.digs, ErrorSelector)
         THEN C13_Data.abi # None =>
                execResult.error = Some(Message("Error", NaNv, C13_Data.abi[1]))
         ELSE execResult.error = Some(Plain(C13_Supplied))

C13_Witness ==
    /\ C13_Decoded
    /\ StartsWith(C13_Data.digs, PanicSelector)
    /\ execResult.error[1].code = Num(17)
    /\ execResult.error[1].text = "Arithmetic overflow/underflow (unchecked)"

\* the data carries the Error selector and what follows is not a string
C14_Malformed ==
    /\ C13_Decoded
    /\ StartsWith(C13_Data.digs, ErrorSelector)
    /\ C13_Data.abi = None

\* C14 as stated: an Error selector followed by data that is not a valid
\* ABI string raises nothing and leaves the generic "Transaction reverted",
\* whether or not a plain revert reason was supplied.
C14_GenericOnMalformed ==
    C14_Malformed => execResult.error = Some(Plain("Transaction reverted"))

\* C14 amended: an Error selector followed by data that is not a valid ABI
\* string raises nothing and leaves the supplied plain revert reason when
\* there is one, and "Transaction reverted" otherwise.
C14_FallbackOnMalformed ==
    C14_Malformed => execResult.error = Some(Plain(C13_Supplied))

C14_Witness ==
    /\ C14_Malformed
    /\ reply.revertReason = Some("custom reason")
    /\ execResult.error = Some(Plain("custom reason"))

----------------------------------------------------------------------------
(* Properties of getSourceLocation: unresolved pcs, neighbours, lines      *)

\* C15: getSourceLocation returns; it returns null for every pc that is not
\* a key of the instruction table, and for every pc when the source map or
\* the source text is not loaded.
C15_UnresolvedIsNull ==
    loc.called =>
      /\ loc.pc \notin DOMAIN pcToInstructionIndex => loc.result = None
      /\ (sourceMap = EmptyString \/ sourceCode = EmptyText) =>
            loc.result = None

\* the pc of the operand byte of a PUSH, with source and map loaded
C15_Witness ==
    /\ loc.called
    /\ sourceMap # EmptyString /\ sourceCode # EmptyText
    /\ loc.pc \notin DOMAIN pcToInstructionIndex
    /\ \E q \in DOMAIN pcToInstructionIndex : q < loc.pc
    /\ \E q \in DOMAIN pcToInstructionIndex : q > loc.pc
    /\ loc.result = None

\* offset(L): the sum of (length + 1) over the lines before L
RECURSIVE C17_Offset(_, _)
C17_Offset(lines, L) ==
    IF L <= 1 THEN 0
    ELSE C17_Offset(lines, L - 1) + Len(lines[L - 1]) + 1

\* the lines L with offset(L) <= start < offset(L) + length(L) + 1
C17_LinesOf(lines, start) ==
    { L \in 1..Len(lines) :
        /\ C17_Offset(lines, L) <= start
        /\ start < C17_Offset(lines, L) + Len(lines[L]) + 1 }

\* the indices of [i-5, i+5] that have an entry
C16_Neighbours(i) == { j \in (i - 5)..(i + 5) : j \in DOMAIN sourceMapCache }

\* C16: when the instruction index i of pc has no entry, a location is
\* returned exactly when some index of [i-5, i+5] has an entry; the location
\* is computed from one of those entries and its line is the line of the
\* text that holds the start offset of that entry; otherwise null.
C16_NeighbourFallback ==
    CacheBuilt =>
      LET i == pcToInstructionIndex[loc.pc]
      IN i \notin DOMAIN sourceMapCache =>
           /\ loc.result # None <=> C16_Neighbours(i) # {}
           /\ loc.result # None =>
                /\ loc.used \in C16_Neighbours(i)
                /\ LET start == sourceMapCache[loc.used].start
                   IN (~start.nan /\ C17_LinesOf(sourceCode, start.v) # {}) =>
                        loc.result[1].line \in C17_LinesOf(sourceCode, start.v)

\* the only neighbour with an entry is the one five indices below
C16_Witness ==
    /\ CacheBuilt
    /\ pcToInstructionIndex[loc.pc] \notin DOMAIN sourceMapCache
    /\ loc.result # None
    /\ C16_Neighbours(pcToInstructionIndex[loc.pc])
         = {pcToInstructionIndex[loc.pc] - 5}
    /\ loc.result[1].line > 1

\* the number of characters of the text, newlines included
C17_TextLength(lines) == C17_Offset(lines, Len(lines) + 1) - 1

RECURSIVE C17_DropSpaces(_)
C17_DropSpaces(line) ==
    IF line # <<>> /\ Head(line) = " " THEN C17_DropSpaces(Tail(line))
    ELSE line

RECURSIVE C17_Reverse(_)
C17_Reverse(line) ==
    IF line = <<>> THEN <<>> ELSE C17_Reverse(Tail(line)) \o <<Head(line)>>

\* the line without the whitespace around it
C17_Trimmed(line) ==
    C17_Reverse(C17_DropSpaces(C17_Reverse(C17_DropSpaces(line))))

\* the call resolved the entry of pc's own instruction index
C17_Direct ==
    /\ CacheBuilt
    /\ loc.via = "direct"
    /\ sourceMapCache[loc.used].fileIndex = Num(0)
    /\ ~sourceMapCache[loc.used].start.nan
    /\ sourceMapCache[loc.used].start.v >= 0
    /\ sourceMapCache[loc.used].start.v < C17_TextLength(sourceCode)

\* C17: for an entry with fileIndex 0 whose start lies inside the text,
\* the returned line L is the only line with
\* offset(L) <= start < offset(L) + length(L) + 1, the column is
\* start - offset(L) + 1, and the snippet is line L without the whitespace
\* around it.
C17_LineColumn ==
    C17_Direct =>
      LET start == sourceMapCache[loc.used].start.v
          L == loc.result[1].line
      IN /\ C17_LinesOf(sourceCode, start) = {L}
         /\ loc.result[1].column = start - C17_Offset(sourceCode, L) + 1
         /\ loc.result[1].snippet = C17_Trimmed(sourceCode[L])

\* offset 4 of "ab\n c \nd": line 2, column 2, snippet "c"
C17_Witness ==
    /\ C17_Direct
    /\ sourceMapCache[loc.used].start = Num(4)
    /\ loc.result = Some([line |-> 2, column |-> 2, snippet |-> <<"c">>])
    /\ sourceCode[2] # <<"c">>

----------------------------------------------------------------------------
(* Properties of getFunctionContext                                        *)

C18_Returned == fnContext.called /\ fnContext.result # None

C18_Braces(line, k, c) ==
    Cardinality({ j \in 1..k : line[j] = c })

RECURSIVE C18_DepthBefore(_, _, _)
\* the depth after the last character of line L - 1, counted from line from
C18_DepthBefore(lines, from, L) ==
    IF L <= from THEN 0
    ELSE C18_DepthBefore(lines, from, L - 1)
           + C18_Braces(lines[L - 1], Len(lines[L - 1]), "{")
           - C18_Braces(lines[L - 1], Len(lines[L - 1]), "}")

\* the depth after character k of line L
C18_Depth(lines, from, L, k) ==
    C18_DepthBefore(lines, from, L)
      + C18_Braces(lines[L], k, "{") - C18_Braces(lines[L], k, "}")

\* after some character of line L the depth is zero and it was positive
\* after an earlier character, of this line or of a line before it
C18_Closes(lines, from, L) ==
    \E k \in 1..Len(lines[L]) :
        /\ C18_Depth(lines, from, L, k) = 0
        /\ \E L2 \in from..L : \E k2 \in 1..Len(lines[L2]) :
              /\ L2 < L \/ k2 < k
              /\ C18_Depth(lines, from, L2, k2) > 0

C18_ClosingLines(lines, from) ==
    { L \in from..Len(lines) : C18_Closes(lines, from, L) }

\* C18: endLine is the first line, from startLine on, on which the brace
\* depth counted character by character returns to zero after having been
\* positive, a function written on one line included; it is the last line
\* of the file only when the depth never returns to zero.
C18_EndLine ==
    C18_Returned =>
      LET ctx == fnContext.result[1]
          closing == C18_ClosingLines(sourceCode, ctx.startLine)
      IN IF closing = {} THEN ctx.endLine = Len(sourceCode)
         ELSE ctx.endLine = CHOOSE L \in closing : \A M \in closing : L <= M

\* the declaration lines at or above the target
C19_Declarations(target) ==
    { L \in 1..Len(sourceCode) :
        L <= target /\ IsDeclaration(Trim(sourceCode[L])) }

\* C19: a returned context is the enclosing function: startLine is the
\* nearest declaration line at or above the target and
\* startLine <= target <= endLine; null is returned when no declaration
\* line is at or above the target.
C19_Enclosing ==
    (fnContext.called /\ sourceCode # EmptyText) =>
      IF C19_Declarations(fnContext.lineNumber) = {}
      THEN fnContext.result = None
      ELSE fnContext.result # None =>
             /\ fnContext.result[1].startLine
                  = Max(C19_Declarations(fnContext.lineNumber))
             /\ fnContext.result[1].startLine <= fnContext.lineNumber
             /\ fnContext.lineNumber <= fnContext.result[1].endLine

----------------------------------------------------------------------------
(* Properties of decodeValue                                               *)

\* decodeValue returned for a value of exactly 32 bytes
C20_Word ==
    /\ decoded.called
    /\ Len(decoded.hexValue[1].digs) = 64

C20_Type == decoded.type[1]
C20_Hex == decoded.hexValue[1].digs
C20_Result == decoded.result[1]

C20_DigitChars == {"0", "1", "2", "3", "4", "5", "6", "7", "8", "9"}

\* uint or int followed by digits only
C20_IsIntegerType(type) ==
    \E n \in {3, 4} :
        /\ Len(type) >= n
        /\ SubSeq(type, 1, n) = (IF n = 3 THEN TypeInt ELSE TypeUint)
        /\ \A k \in (n + 1)..Len(type) : type[k] \in C20_DigitChars

RECURSIVE C20_TimesPlus(_, _)
\* a number in 16-bit limbs, lowest first, times 10^4, plus a carry
C20_TimesPlus(low, c) ==
    IF low = <<>>
    THEN IF c = 0 THEN <<>>
         ELSE <<c % 65536>> \o C20_TimesPlus(<<>>, c \div 65536)
    ELSE <<(Head(low) * 10000 + c) % 65536>>
           \o C20_TimesPlus(Tail(low), (Head(low) * 10000 + c) \div 65536)

\* the number written by decimal digits d1 .. d4
C20_Four(d) == ((d[1] * 10 + d[2]) * 10 + d[3]) * 10 + d[4]

RECURSIVE C20_Limbs(_, _)
\* the 16-bit limbs of the number written by the first 4k digits of dec
C20_Limbs(dec, k) ==
    IF k = 0 THEN <<>>
    ELSE C20_TimesPlus(C20_Limbs(dec, k - 1),
                       C20_Four(SubSeq(dec, 4 * k - 3, 4 * k)))

\* the 16-bit limb j, lowest first, of a 64-digit hex word
C20_WordLimb(hex, j) ==
    ((hex[64 - 4 * j + 1] * 16 + hex[64 - 4 * j + 2]) * 16
        + hex[64 - 4 * j + 3]) * 16 + hex[64 - 4 * j + 4]

\* dec is the decimal numeral, without leading zeros, of the word hex
C20_IsDecimalOf(dec, hex) ==
    /\ dec # <<>>
    /\ \A k \in 1..Len(dec) : dec[k] \in 0..9
    /\ Len(dec) > 1 => dec[1] # 0
    /\ LET padded == [i \in 1..((4 - (Len(dec) % 4)) % 4) |-> 0] \o dec
           low == C20_Limbs(padded, Len(padded) \div 4)
       IN /\ Len(low) <= 16
          /\ \A j \in 1..16 :
                C20_WordLimb(hex, j) = (IF j <= Len(low) THEN low[j] ELSE 0)

\* C20: decodeValue returns a string for every 32-byte value: for bool
\* "false" when all bytes are zero and "true" otherwise; for uint* and int*
\* the decimal numeral of the value read as a big-endian unsigned integer;
\* for address 0x followed by the low 20 bytes.
C20_Decoded ==
    C20_Word =>
      /\ C20_Type = TypeBool =>
            C20_Result.kind =
              (IF \A k \in 1..64 : C20_Hex[k] = 0 THEN "false" ELSE "true")
      /\ C20_IsIntegerType(C20_Type) =>
            /\ C20_Result.kind = "decimal"
            /\ C20_IsDecimalOf(C20_Result.digs, C20_Hex)
      /\ C20_Type = TypeAddress =>
            /\ C20_Result.kind = "hex" /\ C20_Result.pfx
            /\ Len(C20_Result.digs) = 40
            /\ \A k \in 1..40 : C20_Result.digs[k] = C20_Hex[24 + k]

\* 2^256 - 1
C20_MaxDecimal ==
    <<1, 1, 5, 7, 9, 2, 0, 8, 9, 2, 3, 7, 3, 1, 6, 1, 9, 5, 4, 2,
       3, 5, 7, 0, 9, 8, 5, 0, 0, 8, 6, 8, 7, 9, 0, 7, 8, 5, 3, 2,
       6, 9, 9, 8, 4, 6, 6, 5, 6, 4, 0, 5, 6, 4, 0, 3, 9, 4, 5, 7,
       5, 8, 4, 0, 0, 7, 9, 1, 3, 1, 2, 9, 6, 3, 9, 9, 3, 5>>

\* the largest word read as uint256
C20_Witness ==
    /\ C20_Word
    /\ C20_IsIntegerType(C20_Type)
    /\ \A k \in 1..64 : C20_Hex[k] = 15
    /\ C20_Result.digs = C20_MaxDecimal

\* the bytes of a 64-digit word, first to n-th
C21_Bytes(hex, n) == [k \in 1..n |-> hex[2 * k - 1] * 16 + hex[2 * k]]

\* C21: for the type string an all-zero word gives the empty quoted string;
\* a word whose last byte b is even with 0 < b <= 62 gives its first b/2
\* bytes as text in double quotes; every other word gives "string (long)".
C21_ShortString ==
    (C20_Word /\ C20_Type = TypeString) =>
      LET b == C20_Hex[63] * 16 + C20_Hex[64]
      IN IF \A k \in 1..64 : C20_Hex[k] = 0
         THEN C20_Result = Out("quoted", FALSE, <<>>)
         ELSE IF b % 2 = 0 /\ 0 < b /\ b <= 62
         THEN C20_Result = Out("quoted", FALSE, C21_Bytes(C20_Hex, b \div 2))
         ELSE C20_Result = Out("string (long)", FALSE, <<>>)

\* the short-string encoding of "hi" gives "hi" in quotes
C21_Witness ==
    /\ C20_Word /\ C20_Type = TypeString
    /\ C20_Hex[64] = 4 /\ C20_Hex[63] = 0
    /\ C20_Result = Out("quoted", FALSE, <<104, 105>>)

\* bytes followed by digits only
C22_IsBytesType(type) ==
    /\ Len(type) >= 5
    /\ SubSeq(type, 1, 5) = TypeBytes
    /\ \A k \in 6..Len(type) : type[k] \in C20_DigitChars

C22_IsUnrecognised(type) ==
    /\ type \notin {TypeString, TypeAddress, TypeBool}
    /\ ~C20_IsIntegerType(type)
    /\ ~C22_IsBytesType(type)

\* C22: for a bytes* type, and for a type that is none of string, address,
\* bool, uint*, int*, decodeValue returns the value as 0x-prefixed hex.
C22_RawHex ==
    (C20_Word /\ (C22_IsBytesType(C20_Type) \/ C22_IsUnrecognised(C20_Type)))
      => C20_Result = Out("hex", TRUE, C20_Hex)

\* the bytes* half of C22 on its own
C22_BytesRawHex ==
    (C20_Word /\ C22_IsBytesType(C20_Type))
      => C20_Result = Out("hex", TRUE, C20_Hex)

----------------------------------------------------------------------------
(* Properties of the parser as a whole                                     *)

\* C23: getSourceLocation and getFunctionContext leave the source text, the
\* source map, the bytecode and the pc table as parseContract left them,
\* and a pc asked again gets the result it got the first time, whatever
\* was resolved in between.
C23_ReadOnly ==
    /\ [](loc.called => seen[loc.pc].result = loc.result)
    /\ [][ppc = "parsed" =>
            UNCHANGED <<sourceCode, sourceMap, bytecode,
                        pcToInstructionIndex>>]_vars

\* a pc resolved, other pcs resolved, the same pc resolved again
C23_Witness ==
    /\ loc.called
    /\ loc.result # None
    /\ seen[loc.pc].again
    /\ fnContext.called
    /\ \E q \in DOMAIN seen : q # loc.pc /\ seen[q].result # loc.result

----------------------------------------------------------------------------
(* Properties of the debug service *)

\* the table is the one of the stored bytecode
C27_TableOfBytecode ==
    ppc = "parsed" => pcToInstructionIndex = buildPCToInstructionMap(bytecode)

\* C27: after any sequence of parseContract calls on one parser, early
\* returns included, the stored source text, source map, bytecode and
\* table belong to one contract (the compiled file, with the deployed code
\* passed along when there is one; a part the call did not reach is still
\* empty), and the table is buildPCToInstructionMap of the stored bytecode
C27_OneContract ==
    /\ C27_TableOfBytecode
    /\ ppc = "parsed" =>
          \/ /\ sourceCode = EmptyText
             /\ sourceMap = EmptyString
             /\ bytecode = Hex(FALSE, <<>>)
          \/ \E c \in ParserContracts :
                /\ sourceCode = c.source
                /\ sourceMap \in {EmptyString, c.sourceMap}
                /\ \/ bytecode \in {Hex(FALSE, <<>>), c.object}
                   \/ \E d \in DeployedCodes :
                         /\ d # None
                         /\ bytecode = Hex(FALSE, d[1].digs)

\* the table and the source map a request's own contract and code give
C24_Own(req) ==
    LET c == req.input.path[1]
        code == IF req.deployed # None THEN Hex(FALSE, req.deployed[1].digs)
                ELSE c.object
    IN IF req.outcome = "ok"
       THEN [table |-> buildPCToInstructionMap(code), map |-> c.sourceMap]
       ELSE [table |-> EmptyMap, map |-> EmptyString]

\* C24: whatever other debug requests are in flight, a request resolves
\* its pcs against the instruction table and the source map built from its
\* own bytecode and contract
C24_OwnParser ==
    \A r \in DOMAIN requests :
        requests[r].usedTable # None =>
            /\ requests[r].usedTable[1] = C24_Own(requests[r]).table
            /\ requests[r].usedMap[1] = C24_Own(requests[r]).map

\* a request resolved its pcs after a later request had built a parser
\* with another table
C24_Witness ==
    \E r \in DOMAIN requests :
        /\ requests[r].pc = "done"
        /\ requests[r].outcome = "ok"
        /\ requests[r].usedTable # None
        /\ requests[r].created > requests[r].parser
        /\ heap[requests[r].created].pcToInstructionIndex
               # requests[r].usedTable[1]
        /\ heap[requests[r].created].pcToInstructionIndex # EmptyMap

\* the pc is the first byte of an instruction whose own source-map entry
\* has file index 0
C25_OwnEntryIsUser(p, pc) ==
    LET cache == buildSourceMapCache(p.sourceMap)
    IN /\ pc \in DOMAIN p.pcToInstructionIndex
       /\ p.pcToInstructionIndex[pc] \in DOMAIN cache
       /\ cache[p.pcToInstructionIndex[pc]].fileIndex = Num(0)

\* C25: the step selected before the first REVERT or INVALID is the latest
\* earlier step whose pc maps to an entry with file index 0 (none when no
\* earlier step has one), so a step whose own entry has another file index
\* is never selected
C25_LatestUserStep ==
    \A r \in DOMAIN requests :
        requests[r].trigger # None =>
            LET p == heap[requests[r].parser]
                tr == requests[r].input.traces
                user == { i \in 1..(RevertIndex(tr) - 1) :
                            C25_OwnEntryIsUser(p, tr[i].pc) }
            IN requests[r].triggerStep
                   = IF user = {} THEN 0
                     ELSE CHOOSE i \in user : \A j \in user : j <= i

\* the location of the trigger pc is the default one whenever the pc's own
\* entry has file index 0 and starts slack or more characters after the
\* end of the text
C30_Defaults(slack) ==
    \A r \in DOMAIN requests :
        requests[r].trigger # None =>
            LET p == heap[requests[r].parser]
                pc == requests[r].trigger[1]
                cache == buildSourceMapCache(p.sourceMap)
            IN (/\ p.sourceCode # EmptyText
                /\ C25_OwnEntryIsUser(p, pc)
                /\ ~cache[p.pcToInstructionIndex[pc]].start.nan
                /\ cache[p.pcToInstructionIndex[pc]].start.v
                       >= C17_TextLength(p.sourceCode) + slack)
               => requests[r].loc
                      = Some([line |-> 1, column |-> 1,
                              snippet |-> C17_Trimmed(p.sourceCode[1])])

\* the first line of the text that contains "require(", 0 when none does
C30_FirstRequireLine(lines) ==
    LET has == { i \in 1..Len(lines) :
                   \E k \in 1..Len(lines[i]) :
                       /\ k + 7 <= Len(lines[i])
                       /\ SubSeq(lines[i], k, k + 7)
                              = <<"r", "e", "q", "u", "i", "r", "e", "(">> }
    IN IF has = {} THEN 0 ELSE CHOOSE i \in has : \A j \in has : i <= j

\* the revert location is the resolved location only when its line is
\* greater than 1, and otherwise the first require of the text at column 1
C30_Accepted ==
    \A r \in DOMAIN requests :
        requests[r].trigger # None =>
            LET l == requests[r].loc
                rl == requests[r].revertLocation
                lines == heap[requests[r].parser].sourceCode
                first == C30_FirstRequireLine(lines)
            IN IF l # None /\ l[1].line > 1
               THEN /\ rl # None
                    /\ rl[1].line = l[1].line
                    /\ rl[1].column = l[1].column
                    /\ rl[1].snippet = l[1].snippet
               ELSE IF first = 0 THEN rl = None
               ELSE /\ rl # None
                    /\ rl[1].line = first
                    /\ rl[1].column = 1
                    /\ rl[1].snippet = C17_Trimmed(lines[first])

\* C30 as stated: an entry of file 0 that starts at or beyond the end of
\* the text resolves to line 1, column 1 and the first line, and debug
\* takes a resolved location only when its line is greater than 1, else
\* the first require
C30_AtOrBeyondEnd == C30_Defaults(0) /\ C30_Accepted

\* C30 amended: the same for an entry that starts strictly beyond the end
\* of the text; an entry that starts exactly at the end resolves to the
\* last line
C30_BeyondEnd == C30_Defaults(1) /\ C30_Accepted

\* a trigger whose entry starts beyond the end resolved to line 1, and the
\* revert location came from the first require instead
C30_Witness ==
    \E r \in DOMAIN requests :
        LET p == heap[requests[r].parser]
        IN /\ requests[r].pc = "done"
           /\ requests[r].trigger # None
           /\ p.sourceCode # EmptyText
           /\ C25_OwnEntryIsUser(p, requests[r].trigger[1])
           /\ buildSourceMapCache(p.sourceMap)
                  [p.pcToInstructionIndex[requests[r].trigger[1]]].start.v
                  > C17_TextLength(p.sourceCode)
           /\ requests[r].loc # None
           /\ requests[r].loc[1].line = 1
           /\ requests[r].revertLocation # None
           /\ requests[r].revertLocation[1].line = 2

----------------------------------------------------------------------------
(* Properties of the CLI *)

\* requests follow a successful health check; one spawn at most, after a
\* failed check; startServer returns on the first successful poll; the
\* 30-seconds error follows 30 polls, all failed, and no request
C28_Order ==
    /\ cli.sent > 0 => cli.checks > cli.failed
    /\ cli.spawned <= 1
    /\ cli.spawned = 1 => cli.failed >= 1
    /\ cli.ended = "returned" =>
          /\ cli.checks = cli.failed + 1
          /\ cli.polls = cli.attempts + 1
    /\ cli.error = "Server failed to start within 30 seconds" =>
          /\ cli.ended = "threw"
          /\ cli.polls = 30
          /\ cli.failed = cli.checks
          /\ cli.sent = 0

\* startServer, once entered, ends
C28_Terminates == (cli.started ~> cli.ended # "no")

\* C28 as stated: the debug request is sent only after a successful health
\* check; the server is spawned at most once and only after a failed
\* check; startServer always terminates, on the first successful check or
\* with "Server failed to start within 30 seconds" after exactly 30 failed
\* polls, and then no request is sent
C28_EnsureThenRequest ==
    /\ [](C28_Order
          /\ (cli.ended = "threw" =>
                 cli.error = "Server failed to start within 30 seconds"))
    /\ C28_Terminates

\* C28 amended: startServer can also end at once, before it spawns or
\* polls, when the server URL does not parse; no request is sent then
\* either
C28_EnsureThenRequestOrInvalid ==
    /\ [](C28_Order
          /\ (cli.ended = "threw" =>
                 \/ cli.error = "Server failed to start within 30 seconds"
                 \/ /\ cli.error = "Invalid URL"
                    /\ ~cli.url
                    /\ cli.spawned = 0
                    /\ cli.polls = 0
                    /\ cli.sent = 0))
    /\ C28_Terminates

\* startServer gave up after its 30th failed poll
C28_Witness ==
    /\ cli.pc = "exited"
    /\ cli.spawned = 1
    /\ cli.attempts = 30
    /\ cli.error = "Server failed to start within 30 seconds"

----------------------------------------------------------------------------
(* Properties of the API *)

\* 0x followed by 64 hexadecimal characters, and nothing else
C29_IsTxHash(t) ==
    /\ Len(t) = 2 + 64
    /\ SubSeq(t, 1, 2) = <<"0", "x">>
    /\ \A i \in 3..Len(t) :
          t[i] \in { "0", "1", "2", "3", "4", "5", "6", "7", "8", "9",
                     "a", "b", "c", "d", "e", "f",
                     "A", "B", "C", "D", "E", "F" }

====
